---- MODULE Spec2Model ----
(***************************************************************************)
(* gcectl: the concurrent start/stop orchestrator (StartVMUseCase.Execute  *)
(* and its Stop twin) over the VMRepository, with the errgroup that        *)
(* collects the first error and cancels the shared context.                *)
(* Further components, each with a specification of its own: the progress  *)
(* reporter, waitOperator, FindAll, UpdateMachineTypeUseCase, the VM value *)
(* (toModel, CanStart, CanStop, Uptime, formatUptime), and the on and off  *)
(* commands with ParseConfig.                                              *)
(***************************************************************************)
EXTENDS Integers, Sequences, FiniteSets, TLC

(* ------------------------------------------------------------------ *)
(* Bounds                                                              *)
(* ------------------------------------------------------------------ *)

\* Longest list of VM references handed to one batch call.
MaxVMs == 2

\* Names of the instances that exist at the provider.
VMNames == {"vm-1", "vm-2"}

\* Status strings the provider reports for an instance ("STOPPING" is one
\* the Status enum does not know).
ProviderStatuses == {"RUNNING", "TERMINATED", "STOPPING"}

(* ------------------------------------------------------------------ *)
(* model.Status and the precondition gates                             *)
(* ------------------------------------------------------------------ *)

StatusUnknown == 0
StatusRunning == 1
StatusStopped == 2
StatusTerminated == 3
StatusProvisioning == 4

StatusString(s) ==
    CASE s = StatusRunning -> "RUNNING"
      [] s = StatusStopped -> "STOPPED"
      [] s = StatusTerminated -> "TERMINATED"
      [] s = StatusProvisioning -> "PROVISIONING"
      [] OTHER -> "UNKNOWN"

StatusFromString(str) ==
    CASE str = "RUNNING" -> StatusRunning
      [] str = "STOPPED" -> StatusStopped
      [] str = "TERMINATED" -> StatusTerminated
      [] str = "PROVISIONING" -> StatusProvisioning
      [] OTHER -> StatusUnknown

\* Variant of CanStart: every VM that is not running may be started.
CanStartUnlessRunning(vm) == vm.Status # StatusRunning

CanStart(vm) == vm.Status = StatusStopped \/ vm.Status = StatusTerminated

CanStop(vm) == vm.Status = StatusRunning

(* ------------------------------------------------------------------ *)
(* Errors: the text fmt.Errorf builds, and the %w chain                *)
(* ------------------------------------------------------------------ *)

\* The nil error.
Nil == [text |-> <<>>, cause |-> <<>>]

\* errors.New(text)
NewError(text) == [text |-> <<text>>, cause |-> <<>>]

\* fmt.Errorf(prefix + "%w", e): the text of e is appended and e is kept
\* as the cause.
Errorf_w(prefix, e) == [text |-> prefix \o e.text, cause |-> <<e>>]

\* fmt.Errorf(prefix + "%v", e): the text of e is appended, the chain is cut.
Errorf_v(prefix, e) == [text |-> prefix \o e.text, cause |-> <<>>]

\* context.Canceled
Canceled == NewError("context canceled")

\* An error of the provider's API.
ApiError == NewError("GCP API error")

(* ------------------------------------------------------------------ *)
(* State of one batch call                                             *)
(* ------------------------------------------------------------------ *)

VARIABLES
    action,       \* "Start" or "Stop": which use case runs the batch
    vms,          \* the list of VM references (names) given to Execute
    instStatus,   \* provider side: the status string of every instance
    op,           \* provider side: per unit, the operation its request created
    interrupted,  \* the caller's context was cancelled (signal.NotifyContext)
    pc,           \* per unit (goroutine), its position in the closure
    found,        \* per unit, foundVM: <<>> for nil, <<vm>> otherwise
    uerr,         \* per unit, the error its closure returned (Nil: none)
    egErr,        \* errgroup: g.err, written once under errOnce
    returned,     \* eg.Wait() has returned
    result,       \* what Execute returned
    errLog,       \* history: the units, in the order their errors were produced
    findCalls,    \* history: per unit, invocations of FindByName
    actCalls,     \* history: per unit, invocations of Start/Stop
    actArg,       \* history: per unit, the VM value handed to Start/Stop
    actOn,        \* history: per unit, the provider status when Start/Stop was invoked
    issued,       \* history: per unit, the operations its requests created at the provider
    trace         \* history: per unit, the steps of the closure in the order taken

batchVars == <<action, vms, instStatus, op, interrupted, pc, found, uerr, egErr,
               returned, result, errLog, findCalls, actCalls, actArg, actOn,
               issued, trace>>

\* State of one call of ConsolePresenter.ExecuteWithProgress.
VARIABLES
    fn,           \* the function given: how long it takes, whether it ends, whether it heeds ctx
    now,          \* the time since the call, in half seconds
    pCanceled,    \* the context given to ExecuteWithProgress was cancelled
    work,         \* position of the goroutine that runs fn
    workErr,      \* what fn returned
    ticker,       \* position of the goroutine that ticks
    tickerErr,    \* what the ticking closure returned
    tickC,        \* ticker.C holds a tick
    doneCh,       \* history: who closed doneCh, in order (closed once it is not empty)
    ticks,        \* history: the calls of p.Progress()
    pgErr,        \* errgroup: g.err
    pReturned,    \* ExecuteWithProgress has returned
    pResult       \* what ExecuteWithProgress returned

reporterVars == <<fn, now, pCanceled, work, workErr, ticker, tickerErr, tickC,
                  doneCh, ticks, pgErr, pReturned, pResult>>

\* State of one call of a mutation of VMRepository from the moment the
\* provider has handed out the operation: waitOperator.
VARIABLES
    mutation,         \* the method of VMRepository that waits
    progressCallback, \* r.progressCallback is set
    wCanceled,        \* the context given to the method was cancelled
    operation,        \* provider side: the operation is "pending", "done" or "failed"
    waiter,           \* position of the goroutine that calls op.Wait
    waiterErr,        \* what the waiting closure returned
    reporter,         \* position of the goroutine that reports progress
    reporterErr,      \* what the reporting closure returned
    done,             \* the channel done is closed
    callbacks,        \* history: the calls of r.progressCallback()
    wgErr,            \* errgroup: g.err
    wReturned,        \* the method has returned
    wResult,          \* what waitOperator returned
    mResult           \* what the method returned

waitVars == <<mutation, progressCallback, wCanceled, operation, waiter,
              waiterErr, reporter, reporterErr, done, callbacks, wgErr,
              wReturned, wResult, mResult>>

\* State of one call of VMRepository.FindAll.
VARIABLES
    cfg,          \* cfg.VMs: the VM references of the configuration file
    fCanceled,    \* the context given to FindAll was cancelled
    fetch,        \* per configured VM, the position of its goroutine
    fetchErr,     \* per configured VM, the error its FindByName returned (logged)
    vmChan,       \* the buffered channel: the VMs sent, each with the entry it is of
    fgErr,        \* errgroup: g.err
    fReturned,    \* FindAll has returned
    fVMs,         \* the list FindAll returned
    fErr          \* the error FindAll returned

findAllVars == <<cfg, fCanceled, fetch, fetchErr, vmChan, fgErr, fReturned,
                 fVMs, fErr>>

\* State of one call of UpdateMachineTypeUseCase.Execute.
VARIABLES
    ucName,          \* the name of the VM Execute is given
    machineType,     \* the machine type Execute is given
    instMachineType, \* provider side: the machine type of that instance
    ucCanceled,      \* the context given to Execute was cancelled
    ucPc,            \* the position of Execute
    ucFound,         \* <<>> for nil, <<vm>> otherwise
    ucErr,           \* what Execute returned
    updateCalls,     \* history: invocations of vmRepo.UpdateMachineType
    updateArg        \* history: the VM value handed to UpdateMachineType

updateVars == <<ucName, machineType, instMachineType, ucCanceled, ucPc, ucFound,
                ucErr, updateCalls, updateArg>>

\* State of one conversion of a provider instance to a VM and of the calls on it.
VARIABLES
    instance,        \* provider side: the instance's status and lastStartTimestamp strings
    nowTime,         \* the time handed to Uptime, in milliseconds
    mPc,             \* "fetched", then "converted" or "failed"
    modelVM,         \* the VM toModel returned: <<>> for nil, <<vm>> otherwise
    canStartResult,  \* <<>> before the call, then <<what CanStart returned>>
    canStopResult,   \* <<>> before the call, then <<what CanStop returned>>
    uptimeResult,    \* <<>> before the call, then <<[d, err] as Uptime returned>>
    uptimeString     \* <<>> before the call, then <<what calculateUptimeString returned>>

domainVars == <<instance, nowTime, mPc, modelVM, canStartResult,
                canStopResult, uptimeResult, uptimeString>>

\* State of one run of the on or off command.
VARIABLES
    cmdName,    \* "on" or "off"
    cmdArgs,    \* the VM names given on the command line
    cnfFile,    \* the configuration file at CnfPath
    cnf,        \* <<>> before ParseConfig returned, then <<the Config>>
    cmdPc,      \* the position of the command's Run function
    cmdIdx,     \* the position of the loop over the names
    cmdVMs,     \* the slice vms built from the names
    unitCalls,  \* per VM handed to Execute, the provider calls made for it
    cmdOut      \* what the command printed last

commandVars == <<cmdName, cmdArgs, cnfFile, cnf, cmdPc, cmdIdx, cmdVMs,
                  unitCalls, cmdOut>>

vars == <<batchVars, reporterVars, waitVars, findAllVars, updateVars,
          domainVars, commandVars>>

\* What a step of one component leaves alone: the state of the others.
besidesBatch == <<reporterVars, waitVars, findAllVars, updateVars,
                  domainVars, commandVars>>
besidesReporter == <<batchVars, waitVars, findAllVars, updateVars, domainVars,
                     commandVars>>
besidesWait == <<batchVars, reporterVars, findAllVars, updateVars,
                 domainVars, commandVars>>
besidesFindAll == <<batchVars, reporterVars, waitVars, updateVars, domainVars,
                    commandVars>>
besidesUpdate == <<batchVars, reporterVars, waitVars, findAllVars,
                   domainVars, commandVars>>
besidesDomain == <<batchVars, reporterVars, waitVars, findAllVars,
                   updateVars, commandVars>>
besidesCommand == <<batchVars, reporterVars, waitVars, findAllVars,
                    updateVars, domainVars>>

provVars == <<instStatus, op>>
histVars == <<findCalls, actCalls, actArg, actOn, issued>>

Units == 1..Len(vms)

\* Variant of UnitRef: the closures share the loop variable and all see the
\* last reference of the list.
UnitRefShared(i) == vms[Len(vms)]

\* The reference the closure of unit i captured (vm := vm).
UnitRef(i) == vms[i]

\* The lists a batch call can be given: non-empty, any names, repeats allowed
\* (the CLI passes its arguments through unchanged). The closures are spawned
\* alike and run in any order, so lists are taken up to the order of their
\* entries.
NameIndex == [n \in VMNames |-> IF n = "vm-1" THEN 1 ELSE 2]

VMLists ==
    {l \in UNION {[1..n -> VMNames] : n \in 1..MaxVMs} :
        \A i \in 1..(Len(l) - 1) : NameIndex[l[i]] <= NameIndex[l[i + 1]]}

\* The instances a list names.
Named(l) == {l[i] : i \in 1..Len(l)}

\* ctx of errgroup.WithContext: done once the caller's context is done, the
\* first error was recorded, or Wait has returned.
CtxDone == interrupted \/ egErr # Nil \/ returned

\* Variant of WaitCtxDone: op.Wait is given a context that is never done.
WaitCtxBackground == FALSE

\* The context op.Wait is given inside waitOperator: derived from ctx.
WaitCtxDone == CtxDone

(* ------------------------------------------------------------------ *)
(* The repository (gcp.VMRepository behind repository.VMRepository)    *)
(* ------------------------------------------------------------------ *)

\* toModel: the snapshot built from the provider's instance.
toModel(name) == [Name |-> name, Status |-> StatusFromString(instStatus[name])]

\* What FindByName can hand back once the provider has answered: the
\* snapshot, an error, or (a repository behind the interface, as the mocks
\* do) neither a VM nor an error.
FindByNameResults(name) ==
    { [vm |-> <<toModel(name)>>, err |-> Nil],
      [vm |-> <<>>, err |-> Errorf_w(<<"failed to get instance: ">>, ApiError)],
      [vm |-> <<>>, err |-> Nil] }

\* FindByName when the context is done while the call is blocked.
FindByNameCanceled == Errorf_w(<<"failed to get instance: ">>, Canceled)

\* The request of Start/Stop refused by the provider.
StartRejected == Errorf_w(<<"failed to start instance: ">>, ApiError)
StopRejected == Errorf_w(<<"failed to stop instance: ">>, ApiError)

\* The request of Start/Stop cut short by a done context.
StartCanceled == Errorf_w(<<"failed to start instance: ">>, Canceled)
StopCanceled == Errorf_w(<<"failed to stop instance: ">>, Canceled)

\* waitOperator: the error of op.Wait, reported with %v.
waitOperatorError(e) == Errorf_v(<<"failed to wait for operation: ">>, e)

\* The status an instance has once the operation has completed.
StartEffect == "RUNNING"
StopEffect == "TERMINATED"

(* ------------------------------------------------------------------ *)
(* The closure of one unit: what it decides and what it returns        *)
(* ------------------------------------------------------------------ *)

\* Variant of StartPrecondition: the gate left out, every fetched VM is started.
StartPreconditionSkipped(vm) == TRUE

\* Start use case: the gate, and the errors of the closure.
StartPrecondition(vm) == CanStart(vm)

StartFindError(name, e) == Errorf_w(<<"VM ", name, ": failed to find: ">>, e)

\* Variant of StartNotFoundError: a VM that is not there is passed over in
\* silence.
StartNotFoundIgnored(name) == Nil

StartNotFoundError(name) == [text |-> <<"VM ", name, ": not found">>, cause |-> <<>>]

StartPreconditionError(vm) ==
    [text |-> <<"VM ", vm.Name, ": cannot be started (current status: ",
                StatusString(vm.Status), ")">>,
     cause |-> <<>>]

\* Variant of StartFailedError: the cause is printed with %v and the chain is
\* cut.
StartFailedErrorUnwrapped(vm, e) == Errorf_v(<<"VM ", vm.Name, ": failed to start: ">>, e)

StartFailedError(vm, e) == Errorf_w(<<"VM ", vm.Name, ": failed to start: ">>, e)

\* Variant of StartArgument: Start is handed the reference Execute was given,
\* not the VM that was fetched.
StartArgumentIsReference(ref, foundVM) == [Name |-> ref, Status |-> StatusUnknown]

\* The VM value the closure hands to the repository's Start.
StartArgument(ref, foundVM) == foundVM

\* Stop use case: the same closure with CanStop and Stop.
StopPrecondition(vm) == CanStop(vm)

StopFindError(name, e) == Errorf_w(<<"VM ", name, ": failed to find: ">>, e)

StopNotFoundError(name) == [text |-> <<"VM ", name, ": not found">>, cause |-> <<>>]

StopPreconditionError(vm) ==
    [text |-> <<"VM ", vm.Name, ": cannot be stopped (current status: ",
                StatusString(vm.Status), ")">>,
     cause |-> <<>>]

StopFailedError(vm, e) == Errorf_w(<<"VM ", vm.Name, ": failed to stop: ">>, e)

StopArgument(ref, foundVM) == foundVM

\* The use case that runs the batch selects its half.
Precondition(vm) ==
    IF action = "Start" THEN StartPrecondition(vm) ELSE StopPrecondition(vm)

FindError(name, e) ==
    IF action = "Start" THEN StartFindError(name, e) ELSE StopFindError(name, e)

NotFoundError(name) ==
    IF action = "Start" THEN StartNotFoundError(name) ELSE StopNotFoundError(name)

PreconditionError(vm) ==
    IF action = "Start" THEN StartPreconditionError(vm) ELSE StopPreconditionError(vm)

FailedError(vm, e) ==
    IF action = "Start" THEN StartFailedError(vm, e) ELSE StopFailedError(vm, e)

Argument(ref, foundVM) ==
    IF action = "Start" THEN StartArgument(ref, foundVM) ELSE StopArgument(ref, foundVM)

Rejected == IF action = "Start" THEN StartRejected ELSE StopRejected

RequestCanceled == IF action = "Start" THEN StartCanceled ELSE StopCanceled

Effect == IF action = "Start" THEN StartEffect ELSE StopEffect

(* ------------------------------------------------------------------ *)
(* errgroup                                                            *)
(* ------------------------------------------------------------------ *)

\* Variant of errOnce: no once, the error recorded last overwrites.
errLastWins(old, e) == e

\* g.errOnce.Do: the first error is kept, later ones are dropped.
errOnce(old, e) == IF old = Nil THEN e ELSE old

\* Variant of Fail: on an error the instances of the units that are already
\* over are put back (a rollback).
FailWithRollback(i, e) ==
    /\ pc' = [pc EXCEPT ![i] = "failed"]
    /\ uerr' = [uerr EXCEPT ![i] = e]
    /\ egErr' = errOnce(egErr, e)
    /\ errLog' = Append(errLog, i)
    /\ instStatus' =
         [n \in VMNames |->
            IF \E j \in Units : pc[j] = "done" /\ vms[j] = n
            THEN (IF action = "Start" THEN "TERMINATED" ELSE "RUNNING")
            ELSE instStatus[n]]

\* The closure of unit i returns the error e: the unit is over, the
\* errgroup records e (and with it cancels the context). No call goes to the
\* provider for the units that are already over.
Fail(i, e) ==
    /\ pc' = [pc EXCEPT ![i] = "failed"]
    /\ uerr' = [uerr EXCEPT ![i] = e]
    /\ egErr' = errOnce(egErr, e)
    /\ errLog' = Append(errLog, i)
    /\ UNCHANGED instStatus   \* nothing is undone at the provider

\* Variant of WaitResult: Execute waits for the group and drops its error.
WaitResultDropped == Nil

\* What eg.Wait() returns.
WaitResult == egErr

(* ------------------------------------------------------------------ *)
(* Init: Execute has spawned one goroutine per VM reference            *)
(* ------------------------------------------------------------------ *)

\* The provider's instances when no component looks at them.
ProviderIdle == instStatus = [n \in VMNames |-> "TERMINATED"]

\* No batch call is under way.
BatchIdle ==
    /\ action = "Start"
    /\ vms = <<>>
    /\ op = <<>>
    /\ interrupted = FALSE
    /\ pc = <<>>
    /\ found = <<>>
    /\ uerr = <<>>
    /\ egErr = Nil
    /\ returned = FALSE
    /\ result = Nil
    /\ errLog = <<>>
    /\ findCalls = <<>>
    /\ actCalls = <<>>
    /\ actArg = <<>>
    /\ actOn = <<>>
    /\ issued = <<>>
    /\ trace = <<>>

\* No call of ExecuteWithProgress is under way.
ReporterIdle ==
    /\ fn = [duration |-> 0, ends |-> TRUE, heedsCtx |-> TRUE]
    /\ now = 0
    /\ pCanceled = FALSE
    /\ work = "idle"
    /\ workErr = Nil
    /\ ticker = "idle"
    /\ tickerErr = Nil
    /\ tickC = FALSE
    /\ doneCh = <<>>
    /\ ticks = 0
    /\ pgErr = Nil
    /\ pReturned = FALSE
    /\ pResult = Nil

\* No mutation of the repository is waiting for an operation.
WaitIdle ==
    /\ mutation = "Start"
    /\ progressCallback = FALSE
    /\ wCanceled = FALSE
    /\ operation = "none"
    /\ waiter = "idle"
    /\ waiterErr = Nil
    /\ reporter = "idle"
    /\ reporterErr = Nil
    /\ done = FALSE
    /\ callbacks = 0
    /\ wgErr = Nil
    /\ wReturned = FALSE
    /\ wResult = Nil
    /\ mResult = Nil

\* No call of FindAll is under way.
FindAllIdle ==
    /\ cfg = <<>>
    /\ fCanceled = FALSE
    /\ fetch = <<>>
    /\ fetchErr = <<>>
    /\ vmChan = <<>>
    /\ fgErr = Nil
    /\ fReturned = FALSE
    /\ fVMs = <<>>
    /\ fErr = Nil

\* No call of UpdateMachineTypeUseCase.Execute is under way.
UpdateIdle ==
    /\ ucName = "vm-1"
    /\ machineType = "e2-medium"
    /\ instMachineType = "e2-medium"
    /\ ucCanceled = FALSE
    /\ ucPc = "idle"
    /\ ucFound = <<>>
    /\ ucErr = Nil
    /\ updateCalls = 0
    /\ updateArg = <<>>

\* No instance is being converted.
DomainIdle ==
    /\ instance = [status |-> "TERMINATED", lastStartTimestamp |-> ""]
    /\ nowTime = 0
    /\ mPc = "idle"
    /\ modelVM = <<>>
    /\ canStartResult = <<>>
    /\ canStopResult = <<>>
    /\ uptimeResult = <<>>
    /\ uptimeString = <<>>

\* No command is running.
CommandIdle ==
    /\ cmdName = "on"
    /\ cmdArgs = <<>>
    /\ cnfFile = [kind |-> "missing", defaultProject |-> "", defaultZone |-> "", vm |-> <<>>]
    /\ cnf = <<>>
    /\ cmdPc = "idle"
    /\ cmdIdx = 0
    /\ cmdVMs = <<>>
    /\ unitCalls = <<>>
    /\ cmdOut = ""

Init ==
    /\ CommandIdle
    /\ DomainIdle
    /\ ReporterIdle
    /\ WaitIdle
    /\ FindAllIdle
    /\ UpdateIdle
    /\ action \in {"Start", "Stop"}
    /\ vms \in VMLists
    /\ instStatus \in [VMNames -> ProviderStatuses]
    /\ \A n \in VMNames \ Named(vms) : instStatus[n] = "TERMINATED"
    /\ op = [i \in Units |-> "none"]
    /\ interrupted = FALSE
    /\ pc = [i \in Units |-> "spawned"]
    /\ found = [i \in Units |-> <<>>]
    /\ uerr = [i \in Units |-> Nil]
    /\ egErr = Nil
    /\ returned = FALSE
    /\ result = Nil
    /\ errLog = <<>>
    /\ findCalls = [i \in Units |-> 0]
    /\ actCalls = [i \in Units |-> 0]
    /\ actArg = [i \in Units |-> <<>>]
    /\ actOn = [i \in Units |-> "-"]
    /\ issued = [i \in Units |-> 0]
    /\ trace = [i \in Units |-> <<>>]

(* ------------------------------------------------------------------ *)
(* The steps of unit i                                                 *)
(* ------------------------------------------------------------------ *)

\* Variant of CallFind: the closure looks at the context first and gives up
\* without calling FindByName when it is done.
CallFindUnlessDone(i) ==
    /\ pc[i] = "spawned"
    /\ IF CtxDone
       THEN /\ Fail(i, Canceled)
            /\ UNCHANGED <<findCalls, trace>>
       ELSE /\ pc' = [pc EXCEPT ![i] = "finding"]
            /\ findCalls' = [findCalls EXCEPT ![i] = @ + 1]
            /\ trace' = [trace EXCEPT ![i] = Append(@, "find")]
            /\ UNCHANGED <<uerr, egErr, errLog, instStatus>>
    /\ UNCHANGED <<besidesBatch, action, vms, op, interrupted, found, returned, result,
                   actCalls, actArg, actOn, issued>>

\* The goroutine runs and calls FindByName(ctx, vm).
CallFind(i) ==
    /\ pc[i] = "spawned"
    /\ pc' = [pc EXCEPT ![i] = "finding"]
    /\ findCalls' = [findCalls EXCEPT ![i] = @ + 1]
    /\ trace' = [trace EXCEPT ![i] = Append(@, "find")]
    /\ UNCHANGED <<besidesBatch, action, vms, provVars, interrupted, found, uerr, egErr,
                   returned, result, errLog, actCalls, actArg, actOn, issued>>

\* FindByName returns what the provider answered; an error ends the unit.
FindReturn(i) ==
    /\ pc[i] = "finding"
    /\ \E r \in FindByNameResults(UnitRef(i)) :
         IF r.err # Nil
         THEN /\ Fail(i, FindError(UnitRef(i), r.err))
              /\ UNCHANGED <<found, trace>>
         ELSE /\ found' = [found EXCEPT ![i] = r.vm]
              /\ pc' = [pc EXCEPT ![i] = "check"]
              /\ trace' = [trace EXCEPT ![i] = Append(@, "found")]
              /\ UNCHANGED <<uerr, egErr, errLog, instStatus>>
    /\ UNCHANGED <<besidesBatch, action, vms, op, interrupted, returned, result, histVars>>

\* FindByName blocked in the provider call observes the done context.
FindCanceled(i) ==
    /\ pc[i] = "finding"
    /\ CtxDone
    /\ Fail(i, FindError(UnitRef(i), FindByNameCanceled))
    /\ UNCHANGED <<besidesBatch, action, vms, op, interrupted, found, returned, result,
                   histVars, trace>>

\* foundVM == nil; the gate; then the call of Start/Stop on foundVM.
Check(i) ==
    /\ pc[i] = "check"
    /\ IF found[i] = <<>>
       THEN /\ Fail(i, NotFoundError(UnitRef(i)))
            /\ UNCHANGED <<actCalls, actArg, trace>>
       ELSE IF ~Precondition(found[i][1])
       THEN /\ Fail(i, PreconditionError(found[i][1]))
            /\ trace' = [trace EXCEPT ![i] = Append(@, "check")]
            /\ UNCHANGED <<actCalls, actArg>>
       ELSE /\ pc' = [pc EXCEPT ![i] = "acting"]
            /\ actCalls' = [actCalls EXCEPT ![i] = @ + 1]
            /\ actArg' = [actArg EXCEPT ![i] = <<Argument(UnitRef(i), found[i][1])>>]
            /\ trace' = [trace EXCEPT ![i] = Append(Append(@, "check"), "act")]
            /\ UNCHANGED <<uerr, egErr, errLog, instStatus>>
    /\ UNCHANGED <<besidesBatch, action, vms, op, interrupted, found, returned, result,
                   findCalls, actOn, issued>>

\* The provider takes the request of Start/Stop and hands out an operation.
ActAccepted(i) ==
    /\ pc[i] = "acting"
    /\ pc' = [pc EXCEPT ![i] = "waiting"]
    /\ op' = [op EXCEPT ![i] = "pending"]
    /\ actOn' = [actOn EXCEPT ![i] = instStatus[actArg[i][1].Name]]
    /\ issued' = [issued EXCEPT ![i] = @ + 1]
    /\ UNCHANGED <<besidesBatch, action, vms, instStatus, interrupted, found, uerr, egErr,
                   returned, result, errLog, findCalls, actCalls, actArg, trace>>

\* The provider refuses the request.
ActRejected(i) ==
    /\ pc[i] = "acting"
    /\ Fail(i, FailedError(found[i][1], Rejected))
    /\ UNCHANGED <<besidesBatch, action, vms, op, interrupted, found, returned, result,
                   histVars, trace>>

\* The request blocked in the provider call observes the done context.
ActCanceled(i) ==
    /\ pc[i] = "acting"
    /\ CtxDone
    /\ Fail(i, FailedError(found[i][1], RequestCanceled))
    /\ UNCHANGED <<besidesBatch, action, vms, op, interrupted, found, returned, result,
                   histVars, trace>>

\* Variant of WaitReturn: on a failed operation the request is issued anew
\* and the wait starts over.
WaitReturnRetrying(i) ==
    /\ pc[i] = "waiting"
    /\ op[i] \in {"done", "failed"}
    /\ IF op[i] = "done"
       THEN /\ pc' = [pc EXCEPT ![i] = "done"]
            /\ UNCHANGED <<op, issued>>
       ELSE /\ op' = [op EXCEPT ![i] = "pending"]
            /\ issued' = [issued EXCEPT ![i] = @ + 1]
            /\ UNCHANGED pc
    /\ UNCHANGED <<besidesBatch, action, vms, instStatus, interrupted, found, uerr, egErr,
                   returned, result, errLog, findCalls, actCalls, actArg, actOn,
                   trace>>

\* waitOperator: op.Wait returned because the operation is over.
WaitReturn(i) ==
    /\ pc[i] = "waiting"
    /\ op[i] \in {"done", "failed"}
    /\ IF op[i] = "done"
       THEN /\ pc' = [pc EXCEPT ![i] = "done"]
            /\ UNCHANGED <<uerr, egErr, errLog, instStatus>>
       ELSE Fail(i, FailedError(found[i][1], waitOperatorError(ApiError)))
    /\ UNCHANGED <<besidesBatch, action, vms, op, interrupted, found, returned, result,
                   histVars, trace>>

\* waitOperator: op.Wait returned because the context is done.
WaitCanceled(i) ==
    /\ pc[i] = "waiting"
    /\ WaitCtxDone
    /\ Fail(i, FailedError(found[i][1], waitOperatorError(Canceled)))
    /\ UNCHANGED <<besidesBatch, action, vms, op, interrupted, found, returned, result,
                   histVars, trace>>

(* ------------------------------------------------------------------ *)
(* The provider, the caller, and Wait                                  *)
(* ------------------------------------------------------------------ *)

\* The provider completes the operation of unit i: the instance changes.
OpComplete(i) ==
    /\ op[i] = "pending"
    /\ op' = [op EXCEPT ![i] = "done"]
    /\ instStatus' = [instStatus EXCEPT ![actArg[i][1].Name] = Effect]
    /\ UNCHANGED <<besidesBatch, action, vms, interrupted, pc, found, uerr, egErr, returned,
                   result, errLog, histVars, trace>>

\* The provider reports that the operation of unit i failed.
OpFail(i) ==
    /\ op[i] = "pending"
    /\ op' = [op EXCEPT ![i] = "failed"]
    /\ UNCHANGED <<besidesBatch, action, vms, instStatus, interrupted, pc, found, uerr, egErr,
                   returned, result, errLog, histVars, trace>>

\* SIGINT/SIGTERM: the caller's context is cancelled.
Interrupt ==
    /\ ~interrupted
    /\ ~returned
    /\ interrupted' = TRUE
    /\ UNCHANGED <<besidesBatch, action, vms, provVars, pc, found, uerr, egErr, returned,
                   result, errLog, histVars, trace>>

\* eg.Wait(): every goroutine is over; Execute returns the recorded error.
WaitReturns ==
    /\ ~returned
    /\ \A i \in Units : pc[i] \in {"done", "failed"}
    /\ returned' = TRUE
    /\ result' = WaitResult
    /\ UNCHANGED <<besidesBatch, action, vms, provVars, interrupted, pc, found, uerr, egErr,
                   errLog, histVars, trace>>

Next ==
    \/ \E i \in Units : CallFind(i)
    \/ \E i \in Units : FindReturn(i)
    \/ \E i \in Units : FindCanceled(i)
    \/ \E i \in Units : Check(i)
    \/ \E i \in Units : ActAccepted(i)
    \/ \E i \in Units : ActRejected(i)
    \/ \E i \in Units : ActCanceled(i)
    \/ \E i \in Units : WaitReturn(i)
    \/ \E i \in Units : WaitCanceled(i)
    \/ \E i \in Units : OpComplete(i)
    \/ \E i \in Units : OpFail(i)
    \/ Interrupt
    \/ WaitReturns

Spec == Init /\ [][Next]_vars

\* The scheduling the Go runtime guarantees: a runnable goroutine runs, a
\* goroutine blocked on a done context wakes up, and Wait returns once the
\* group is empty. Nothing obliges the provider to answer a call or to finish
\* an operation, nor the user to interrupt.
Scheduled ==
    \/ \E i \in Units : CallFind(i)
    \/ \E i \in Units : FindCanceled(i)
    \/ \E i \in Units : Check(i)
    \/ \E i \in Units : ActCanceled(i)
    \/ \E i \in Units : WaitReturn(i)
    \/ \E i \in Units : WaitCanceled(i)
    \/ WaitReturns

LiveSpec == Init /\ [][Next]_vars /\ WF_vars(Scheduled)

(* ------------------------------------------------------------------ *)
(* The progress reporter: ConsolePresenter.ExecuteWithProgress         *)
(* ------------------------------------------------------------------ *)

\* The longest a function given to the reporter takes, in half seconds.
MaxDuration == 6

\* time.NewTicker(1 * time.Second), in half seconds.
TickInterval == 2

\* The functions the reporter can be given: fn ends by itself after
\* duration (or never), and it does or does not return when its context is
\* done. (Of a function that never ends the duration means nothing.)
Fns ==
    {f \in [duration : 0..MaxDuration, ends : BOOLEAN, heedsCtx : BOOLEAN] :
        ~f.ends => f.duration = 0}

\* What fn can return by itself, and what it returns when it gives up on a
\* done context (the batch call of cmd/on.go returns the error of a unit).
FnFailure == NewError("fn failed")
FnOutcomes == {Nil, FnFailure}
FnInterrupted == Errorf_w(<<"fn: ">>, Canceled)

\* ctx of errgroup.WithContext inside ExecuteWithProgress.
pCtxDone == pCanceled \/ pgErr # Nil \/ pReturned

\* Variant of FnCtxDone: fn is given a context that is never done.
FnCtxBackground == FALSE

\* The context fn is given: ctx.
FnCtxDone == pCtxDone

\* Variant of CloseOnReturn: doneCh is closed after fn only when fn returned
\* no error.
CloseOnSuccess(e) == e = Nil

\* defer close(doneCh): the closure closes doneCh whatever fn returned.
CloseOnReturn(e) == TRUE

\* Variant of TickerCtxDoneResult: the ticking closure returns ctx.Err().
TickerCtxDoneResultCtxErr == Canceled

\* case <-ctx.Done(): return nil
TickerCtxDoneResult == Nil

\* Variant of TickerFires: a timer that fires once, after TickInterval.
TimerFires(t) == t = TickInterval

\* The ticker sends on ticker.C every TickInterval, for as long as it runs.
TickerFires(t) == t % TickInterval = 0

\* Variant of pWaitReady: the reporter waits for the work closure only.
pWaitReadyWorkOnly == work = "done"

\* eg.Wait() returns once both closures have returned.
pWaitReady == work = "done" /\ ticker \in {"ctx.Done", "doneCh"}

ReporterInit ==
    /\ CommandIdle
    /\ DomainIdle
    /\ BatchIdle
    /\ ProviderIdle
    /\ WaitIdle
    /\ FindAllIdle
    /\ UpdateIdle
    /\ fn \in Fns
    /\ now = 0
    /\ pCanceled = FALSE
    /\ work = "running"
    /\ workErr = Nil
    /\ ticker = "select"
    /\ tickerErr = Nil
    /\ tickC = FALSE
    /\ doneCh = <<>>
    /\ ticks = 0
    /\ pgErr = Nil
    /\ pReturned = FALSE
    /\ pResult = Nil

\* fn returns by itself, with or without an error.
FnReturn ==
    /\ work = "running"
    /\ fn.ends
    /\ now >= fn.duration
    /\ \E e \in FnOutcomes : workErr' = e
    /\ work' = "returned"
    /\ UNCHANGED <<besidesReporter, fn, now, pCanceled, ticker, tickerErr, tickC,
                   doneCh, ticks, pgErr, pReturned, pResult>>

\* fn, blocked, observes its done context and gives up.
FnCanceled ==
    /\ work = "running"
    /\ fn.heedsCtx
    /\ FnCtxDone
    /\ workErr' = FnInterrupted
    /\ work' = "returned"
    /\ UNCHANGED <<besidesReporter, fn, now, pCanceled, ticker, tickerErr, tickC,
                   doneCh, ticks, pgErr, pReturned, pResult>>

\* The work closure returns: the deferred close(doneCh) runs, then the
\* errgroup takes the error (and with it cancels ctx).
WorkReturn ==
    /\ work = "returned"
    /\ work' = "done"
    /\ doneCh' = IF CloseOnReturn(workErr) THEN Append(doneCh, "work") ELSE doneCh
    /\ pgErr' = IF workErr = Nil THEN pgErr ELSE errOnce(pgErr, workErr)
    /\ UNCHANGED <<besidesReporter, fn, now, pCanceled, workErr, ticker,
                   tickerErr, tickC, ticks, pReturned, pResult>>

\* select: case <-ctx.Done()
TickerCtxDone ==
    /\ ticker = "select"
    /\ pCtxDone
    /\ ticker' = "ctx.Done"
    /\ tickerErr' = TickerCtxDoneResult
    /\ pgErr' = IF TickerCtxDoneResult = Nil THEN pgErr
                ELSE errOnce(pgErr, TickerCtxDoneResult)
    /\ UNCHANGED <<besidesReporter, fn, now, pCanceled, work, workErr, tickC,
                   doneCh, ticks, pReturned, pResult>>

\* select: case <-doneCh
TickerDoneCh ==
    /\ ticker = "select"
    /\ doneCh # <<>>
    /\ ticker' = "doneCh"
    /\ UNCHANGED <<besidesReporter, fn, now, pCanceled, work, workErr,
                   tickerErr, tickC, doneCh, ticks, pgErr, pReturned, pResult>>

\* select: case <-ticker.C: p.Progress()
TickerTick ==
    /\ ticker = "select"
    /\ tickC
    /\ tickC' = FALSE
    /\ ticks' = ticks + 1
    /\ UNCHANGED <<besidesReporter, fn, now, pCanceled, work, workErr, ticker,
                   tickerErr, doneCh, pgErr, pReturned, pResult>>

\* return eg.Wait()
ReporterReturns ==
    /\ ~pReturned
    /\ pWaitReady
    /\ pReturned' = TRUE
    /\ pResult' = pgErr
    /\ UNCHANGED <<besidesReporter, fn, now, pCanceled, work, workErr, ticker,
                   tickerErr, tickC, doneCh, ticks, pgErr>>

\* The caller's context is cancelled (signal.NotifyContext in cmd/on.go).
ReporterCancel ==
    /\ ~pCanceled
    /\ ~pReturned
    /\ pCanceled' = TRUE
    /\ UNCHANGED <<besidesReporter, fn, now, work, workErr, ticker, tickerErr,
                   tickC, doneCh, ticks, pgErr, pReturned, pResult>>

\* A goroutine of the reporter can take a step.
ReporterRunnable ==
    \/ ENABLED FnReturn
    \/ ENABLED FnCanceled
    \/ ENABLED WorkReturn
    \/ ENABLED TickerCtxDone
    \/ ENABLED TickerDoneCh
    \/ ENABLED TickerTick
    \/ ENABLED ReporterReturns

\* Half a second passes. A goroutine that can run does so before the clock
\* moves on (the scheduling delay is small against half a second); the
\* ticker, until it is stopped, sends a tick every TickInterval.
Advance ==
    /\ ~pReturned
    /\ ~ReporterRunnable
    /\ now < MaxDuration
    /\ now' = now + 1
    /\ tickC' = (tickC \/ (ticker = "select" /\ TickerFires(now + 1)))
    /\ UNCHANGED <<besidesReporter, fn, pCanceled, work, workErr, ticker,
                   tickerErr, doneCh, ticks, pgErr, pReturned, pResult>>

ReporterNext ==
    \/ FnReturn
    \/ FnCanceled
    \/ WorkReturn
    \/ TickerCtxDone
    \/ TickerDoneCh
    \/ TickerTick
    \/ ReporterReturns
    \/ ReporterCancel
    \/ Advance

ReporterSpec == ReporterInit /\ [][ReporterNext]_vars

\* The scheduling the Go runtime guarantees, and the passing of time: a
\* goroutine that can run runs, fn returns when its time has come, the clock
\* moves on. Nothing obliges the caller to cancel.
ReporterScheduled ==
    \/ FnReturn
    \/ FnCanceled
    \/ WorkReturn
    \/ TickerCtxDone
    \/ TickerDoneCh
    \/ TickerTick
    \/ ReporterReturns
    \/ Advance

ReporterLiveSpec ==
    ReporterInit /\ [][ReporterNext]_vars /\ WF_vars(ReporterScheduled)

(* ------------------------------------------------------------------ *)
(* Operation polling: VMRepository.waitOperator under a mutation       *)
(* ------------------------------------------------------------------ *)

\* The most calls of the progress callback one wait is followed through.
MaxCallbacks == 2

\* The methods of VMRepository that end in waitOperator.
Mutations ==
    {"Start", "Stop", "UpdateMachineType", "SetSchedulePolicy", "UnsetSchedulePolicy"}

\* The error of op.Wait when the provider reports that the operation failed.
OpFailure == NewError("operation failed at the provider")

\* Variant of wCtxDone: the group has no context of its own, only the
\* caller's cancellation is seen.
wCtxDoneCallerOnly == wCanceled

\* ctx of errgroup.WithContext inside waitOperator.
wCtxDone == wCanceled \/ wgErr # Nil \/ wReturned

\* What waitOperator returns for the error of eg.Wait().
waitOperatorResult(e) == IF e = Nil THEN Nil ELSE waitOperatorError(e)

\* What the method returns for the error of waitOperator: Start and Stop
\* return it as it is, the others wrap it with %w.
MutationResult(m, e) ==
    IF e = Nil THEN Nil
    ELSE IF m \in {"Start", "Stop"} THEN e
    ELSE Errorf_w(<<"operation failed: ">>, e)

WaitInit ==
    /\ CommandIdle
    /\ DomainIdle
    /\ BatchIdle
    /\ ProviderIdle
    /\ ReporterIdle
    /\ FindAllIdle
    /\ UpdateIdle
    /\ mutation \in Mutations
    /\ progressCallback \in BOOLEAN
    /\ wCanceled = FALSE
    /\ operation = "pending"
    /\ waiter = "op.Wait"
    /\ waiterErr = Nil
    /\ reporter = IF progressCallback THEN "select" ELSE "none"
    /\ reporterErr = Nil
    /\ done = FALSE
    /\ callbacks = 0
    /\ wgErr = Nil
    /\ wReturned = FALSE
    /\ wResult = Nil
    /\ mResult = Nil

\* op.Wait returns nil: the operation has completed. close(done); return nil.
WaiterOpDone ==
    /\ waiter = "op.Wait"
    /\ operation = "done"
    /\ waiter' = "done"
    /\ done' = TRUE
    /\ UNCHANGED <<besidesWait, mutation, progressCallback, wCanceled, operation,
                   waiterErr, reporter, reporterErr, callbacks, wgErr,
                   wReturned, wResult, mResult>>

\* op.Wait returns the failure the provider reported; the closure returns it.
WaiterOpFailed ==
    /\ waiter = "op.Wait"
    /\ operation = "failed"
    /\ waiter' = "failed"
    /\ waiterErr' = OpFailure
    /\ wgErr' = errOnce(wgErr, OpFailure)
    /\ UNCHANGED <<besidesWait, mutation, progressCallback, wCanceled, operation,
                   reporter, reporterErr, done, callbacks, wReturned, wResult,
                   mResult>>

\* op.Wait returns because ctx is done; the closure returns that error.
WaiterCtxDone ==
    /\ waiter = "op.Wait"
    /\ wCtxDone
    /\ waiter' = "failed"
    /\ waiterErr' = Canceled
    /\ wgErr' = errOnce(wgErr, Canceled)
    /\ UNCHANGED <<besidesWait, mutation, progressCallback, wCanceled, operation,
                   reporter, reporterErr, done, callbacks, wReturned, wResult,
                   mResult>>

\* select: case <-ctx.Done(): return ctx.Err()
ProgressCtxDone ==
    /\ reporter = "select"
    /\ wCtxDone
    /\ reporter' = "ctx.Done"
    /\ reporterErr' = Canceled
    /\ wgErr' = errOnce(wgErr, Canceled)
    /\ UNCHANGED <<besidesWait, mutation, progressCallback, wCanceled, operation,
                   waiter, waiterErr, done, callbacks, wReturned, wResult,
                   mResult>>

\* select: case <-done: return nil
ProgressDone ==
    /\ reporter = "select"
    /\ done
    /\ reporter' = "done"
    /\ UNCHANGED <<besidesWait, mutation, progressCallback, wCanceled, operation,
                   waiter, waiterErr, reporterErr, done, callbacks, wgErr,
                   wReturned, wResult, mResult>>

\* select: case <-ticker.C: r.progressCallback()
ProgressTick ==
    /\ reporter = "select"
    /\ callbacks < MaxCallbacks
    /\ callbacks' = callbacks + 1
    /\ UNCHANGED <<besidesWait, mutation, progressCallback, wCanceled, operation,
                   waiter, waiterErr, reporter, reporterErr, done, wgErr,
                   wReturned, wResult, mResult>>

\* eg.Wait() returns; waitOperator and the method return.
WaitOperatorReturns ==
    /\ ~wReturned
    /\ waiter \in {"done", "failed"}
    /\ reporter \in {"none", "ctx.Done", "done"}
    /\ wReturned' = TRUE
    /\ wResult' = waitOperatorResult(wgErr)
    /\ mResult' = MutationResult(mutation, waitOperatorResult(wgErr))
    /\ UNCHANGED <<besidesWait, mutation, progressCallback, wCanceled, operation,
                   waiter, waiterErr, reporter, reporterErr, done, callbacks,
                   wgErr>>

\* The provider completes the operation.
OperationCompletes ==
    /\ operation = "pending"
    /\ operation' = "done"
    /\ UNCHANGED <<besidesWait, mutation, progressCallback, wCanceled, waiter,
                   waiterErr, reporter, reporterErr, done, callbacks, wgErr,
                   wReturned, wResult, mResult>>

\* The provider reports that the operation failed.
OperationFails ==
    /\ operation = "pending"
    /\ operation' = "failed"
    /\ UNCHANGED <<besidesWait, mutation, progressCallback, wCanceled, waiter,
                   waiterErr, reporter, reporterErr, done, callbacks, wgErr,
                   wReturned, wResult, mResult>>

\* The caller's context is cancelled.
WaitCancel ==
    /\ ~wCanceled
    /\ ~wReturned
    /\ wCanceled' = TRUE
    /\ UNCHANGED <<besidesWait, mutation, progressCallback, operation, waiter,
                   waiterErr, reporter, reporterErr, done, callbacks, wgErr,
                   wReturned, wResult, mResult>>

WaitNext ==
    \/ WaiterOpDone
    \/ WaiterOpFailed
    \/ WaiterCtxDone
    \/ ProgressCtxDone
    \/ ProgressDone
    \/ ProgressTick
    \/ WaitOperatorReturns
    \/ OperationCompletes
    \/ OperationFails
    \/ WaitCancel

WaitSpec == WaitInit /\ [][WaitNext]_vars

\* The two closures are goroutines and are scheduled; a select with a ready
\* case that ends the loop takes it in the end, the ticker being ready only
\* once a second; and eg.Wait returns when both closures have. Neither the
\* provider nor the caller is obliged to do anything.
WaitScheduled ==
    /\ WF_vars(WaiterOpDone \/ WaiterOpFailed \/ WaiterCtxDone)
    /\ WF_vars(ProgressCtxDone \/ ProgressDone)
    /\ WF_vars(WaitOperatorReturns)

WaitLiveSpec == WaitSpec /\ WaitScheduled

(* ------------------------------------------------------------------ *)
(* VMRepository.FindAll                                                *)
(* ------------------------------------------------------------------ *)

Entries == 1..Len(cfg)

\* Variant of ChanCap: the channel is one slot short.
ChanCapOneShort == Len(cfg) - 1

\* The capacity of vmChan: one slot per configured VM.
ChanCap == Len(cfg)

\* ctx of errgroup.WithContext inside FindAll.
fCtxDone == fCanceled \/ fgErr # Nil \/ fReturned

\* What the repository's own FindByName hands back once the provider has
\* answered: the snapshot or an error.
FetchResults(name) ==
    {r \in FindByNameResults(name) : r.vm # <<>> \/ r.err # Nil}

\* Variant of FetchFailureResult: the closure returns the error of the fetch.
FetchFailureReturned(e) == e

\* The closure logs the error of the fetch and returns nil.
FetchFailureResult(e) == Nil

\* What FindAll returns for the error of eg.Wait().
FindAllError(e) == IF e = Nil THEN Nil ELSE Errorf_w(<<"failed to fetch VMs: ">>, e)

\* The closure of entry i ends on a failed fetch.
FetchFails(i, e) ==
    /\ fetch' = [fetch EXCEPT ![i] = "failed"]
    /\ fetchErr' = [fetchErr EXCEPT ![i] = e]
    /\ fgErr' = IF FetchFailureResult(e) = Nil THEN fgErr
                ELSE errOnce(fgErr, FetchFailureResult(e))
    /\ UNCHANGED vmChan

\* The configuration has been read; one goroutine per configured VM.
FindAllInit ==
    /\ CommandIdle
    /\ DomainIdle
    /\ BatchIdle
    /\ ReporterIdle
    /\ WaitIdle
    /\ UpdateIdle
    /\ cfg \in VMLists
    /\ instStatus \in [VMNames -> ProviderStatuses]
    /\ \A n \in VMNames \ Named(cfg) : instStatus[n] = "TERMINATED"
    /\ fCanceled = FALSE
    /\ fetch = [i \in Entries |-> "spawned"]
    /\ fetchErr = [i \in Entries |-> Nil]
    /\ vmChan = <<>>
    /\ fgErr = Nil
    /\ fReturned = FALSE
    /\ fVMs = <<>>
    /\ fErr = Nil

\* The goroutine runs and calls r.FindByName(ctx, cfgVM).
FetchCall(i) ==
    /\ fetch[i] = "spawned"
    /\ fetch' = [fetch EXCEPT ![i] = "finding"]
    /\ UNCHANGED <<besidesFindAll, cfg, fCanceled, fetchErr, vmChan, fgErr,
                   fReturned, fVMs, fErr>>

\* FindByName returns what the provider answered: the VM is sent on vmChan,
\* or the error is logged. A send on a full channel blocks, and for good:
\* vmChan is received from only after eg.Wait() has returned.
FetchReturn(i) ==
    /\ fetch[i] = "finding"
    /\ \E r \in FetchResults(cfg[i]) :
         IF r.err # Nil
         THEN FetchFails(i, r.err)
         ELSE IF Len(vmChan) < ChanCap
         THEN /\ fetch' = [fetch EXCEPT ![i] = "sent"]
              /\ vmChan' = Append(vmChan, [entry |-> i, vm |-> r.vm[1]])
              /\ UNCHANGED <<fetchErr, fgErr>>
         ELSE /\ fetch' = [fetch EXCEPT ![i] = "blocked"]
              /\ UNCHANGED <<vmChan, fetchErr, fgErr>>
    /\ UNCHANGED <<besidesFindAll, cfg, fCanceled, fReturned, fVMs, fErr>>

\* FindByName blocked in the provider call observes the done context.
FetchCanceled(i) ==
    /\ fetch[i] = "finding"
    /\ fCtxDone
    /\ FetchFails(i, FindByNameCanceled)
    /\ UNCHANGED <<besidesFindAll, cfg, fCanceled, fReturned, fVMs, fErr>>

\* eg.Wait() returns; vmChan is closed and drained into the result.
FindAllReturns ==
    /\ ~fReturned
    /\ \A i \in Entries : fetch[i] \in {"sent", "failed"}
    /\ fReturned' = TRUE
    /\ fErr' = FindAllError(fgErr)
    /\ fVMs' = IF fgErr = Nil THEN vmChan ELSE <<>>
    /\ UNCHANGED <<besidesFindAll, cfg, fCanceled, fetch, fetchErr, vmChan, fgErr>>

\* The caller's context is cancelled.
FindAllCancel ==
    /\ ~fCanceled
    /\ ~fReturned
    /\ fCanceled' = TRUE
    /\ UNCHANGED <<besidesFindAll, cfg, fetch, fetchErr, vmChan, fgErr,
                   fReturned, fVMs, fErr>>

FindAllNext ==
    \/ \E i \in Entries : FetchCall(i)
    \/ \E i \in Entries : FetchReturn(i)
    \/ \E i \in Entries : FetchCanceled(i)
    \/ FindAllReturns
    \/ FindAllCancel

FindAllSpec == FindAllInit /\ [][FindAllNext]_vars

\* The goroutines are scheduled and eg.Wait returns when all of them have
\* returned. The provider is not obliged to answer.
FindAllScheduled ==
    /\ WF_vars(\E i \in Entries : FetchCall(i))
    /\ WF_vars(FindAllReturns)

FindAllLiveSpec == FindAllSpec /\ FindAllScheduled

(* ------------------------------------------------------------------ *)
(* UpdateMachineTypeUseCase.Execute                                    *)
(* ------------------------------------------------------------------ *)

\* The statuses the provider can report for the instance.
UpdateStatuses == ProviderStatuses \cup {"STOPPED", "PROVISIONING"}

MachineTypes == {"e2-medium", "n1-standard-1"}

\* The gate of Execute: foundVM.CanStop() turns the call away.
UpdatePrecondition(vm) == ~CanStop(vm)

UpdateFindError(e) == Errorf_w(<<"failed to find VM: ">>, e)

UpdatePreconditionError(vm) ==
    [text |-> <<"VM ", vm.Name,
                " must be stopped before changing machine type (current status: ",
                StatusString(vm.Status), ")">>,
     cause |-> <<>>]

UpdateFailedError(e) == Errorf_w(<<"failed to update machine type: ">>, e)

\* The errors VMRepository.UpdateMachineType returns: the request refused,
\* or the wait for the operation failed.
UpdateMachineTypeErrors ==
    { Errorf_w(<<"failed to set machine type: ">>, ApiError),
      MutationResult("UpdateMachineType", waitOperatorError(OpFailure)) }

UpdateMachineTypeCanceled ==
    MutationResult("UpdateMachineType", waitOperatorError(Canceled))

UpdateInit ==
    /\ CommandIdle
    /\ DomainIdle
    /\ BatchIdle
    /\ ReporterIdle
    /\ WaitIdle
    /\ FindAllIdle
    /\ ucName \in VMNames
    /\ machineType \in MachineTypes
    /\ instMachineType \in MachineTypes
    /\ instStatus \in [VMNames -> UpdateStatuses]
    /\ \A n \in VMNames \ {ucName} : instStatus[n] = "TERMINATED"
    /\ ucCanceled = FALSE
    /\ ucPc = "called"
    /\ ucFound = <<>>
    /\ ucErr = Nil
    /\ updateCalls = 0
    /\ updateArg = <<>>

\* Execute calls uc.vmRepo.FindByName(ctx, vm).
UpdateCallFind ==
    /\ ucPc = "called"
    /\ ucPc' = "finding"
    /\ UNCHANGED <<besidesUpdate, ucName, machineType, instMachineType,
                   ucCanceled, ucFound, ucErr, updateCalls, updateArg>>

\* FindByName returns: an error ends the call; a nil VM without an error is
\* dereferenced by foundVM.CanStop() and the call panics.
UpdateFindReturn ==
    /\ ucPc = "finding"
    /\ \E r \in FindByNameResults(ucName) :
         IF r.err # Nil
         THEN /\ ucPc' = "returned"
              /\ ucErr' = UpdateFindError(r.err)
              /\ UNCHANGED ucFound
         ELSE IF r.vm = <<>>
         THEN /\ ucPc' = "panicked"
              /\ UNCHANGED <<ucFound, ucErr>>
         ELSE /\ ucPc' = "check"
              /\ ucFound' = r.vm
              /\ UNCHANGED ucErr
    /\ UNCHANGED <<besidesUpdate, ucName, machineType, instMachineType,
                   ucCanceled, updateCalls, updateArg>>

\* FindByName blocked in the provider call observes the done context.
UpdateFindCanceled ==
    /\ ucPc = "finding"
    /\ ucCanceled
    /\ ucPc' = "returned"
    /\ ucErr' = UpdateFindError(FindByNameCanceled)
    /\ UNCHANGED <<besidesUpdate, ucName, machineType, instMachineType,
                   ucCanceled, ucFound, updateCalls, updateArg>>

\* The gate; then the call of UpdateMachineType on ucFound.
UpdateCheck ==
    /\ ucPc = "check"
    /\ IF ~UpdatePrecondition(ucFound[1])
       THEN /\ ucPc' = "returned"
            /\ ucErr' = UpdatePreconditionError(ucFound[1])
            /\ UNCHANGED <<updateCalls, updateArg>>
       ELSE /\ ucPc' = "updating"
            /\ updateCalls' = updateCalls + 1
            /\ updateArg' = ucFound
            /\ UNCHANGED ucErr
    /\ UNCHANGED <<besidesUpdate, ucName, machineType, instMachineType,
                   ucCanceled, ucFound>>

\* UpdateMachineType returns nil: the instance has the new machine type.
UpdateApplied ==
    /\ ucPc = "updating"
    /\ ucPc' = "returned"
    /\ instMachineType' = machineType
    /\ UNCHANGED <<besidesUpdate, ucName, machineType, ucCanceled, ucFound,
                   ucErr, updateCalls, updateArg>>

\* UpdateMachineType returns an error.
UpdateFailed ==
    /\ ucPc = "updating"
    /\ ucPc' = "returned"
    /\ \E e \in UpdateMachineTypeErrors : ucErr' = UpdateFailedError(e)
    /\ UNCHANGED <<besidesUpdate, ucName, machineType, instMachineType,
                   ucCanceled, ucFound, updateCalls, updateArg>>

\* UpdateMachineType, blocked, observes the done context.
UpdateCanceled ==
    /\ ucPc = "updating"
    /\ ucCanceled
    /\ ucPc' = "returned"
    /\ ucErr' = UpdateFailedError(UpdateMachineTypeCanceled)
    /\ UNCHANGED <<besidesUpdate, ucName, machineType, instMachineType,
                   ucCanceled, ucFound, updateCalls, updateArg>>

\* The caller's context is cancelled.
UpdateCancel ==
    /\ ~ucCanceled
    /\ ucPc \notin {"returned", "panicked"}
    /\ ucCanceled' = TRUE
    /\ UNCHANGED <<besidesUpdate, ucName, machineType, instMachineType, ucPc,
                   ucFound, ucErr, updateCalls, updateArg>>

UpdateNext ==
    \/ UpdateCallFind
    \/ UpdateFindReturn
    \/ UpdateFindCanceled
    \/ UpdateCheck
    \/ UpdateApplied
    \/ UpdateFailed
    \/ UpdateCanceled
    \/ UpdateCancel

UpdateSpec == UpdateInit /\ [][UpdateNext]_vars

(* ------------------------------------------------------------------ *)
(* The VM value: toModel, CanStart, CanStop, Uptime, formatUptime      *)
(* ------------------------------------------------------------------ *)

\* Times and durations are counted in milliseconds.
Second == 1000
Minute == 60 * Second
Hour == 60 * Minute

\* The status strings an instance may carry: the four StatusFromString
\* tells apart and two it does not.
InstanceStatuses ==
    {"RUNNING", "STOPPED", "TERMINATED", "PROVISIONING", "STOPPING",
     "SUSPENDED"}

\* The lastStartTimestamp strings an instance may carry: none, one that
\* is not RFC3339, and two that are.
StartTimestamps ==
    {"", "yesterday", "2024-01-01T00:00:00Z", "2024-01-01T00:01:00Z"}

\* time.Parse(time.RFC3339, str): <<>> for a parse error, <<t>> otherwise,
\* t in milliseconds since 2024-01-01T00:00:00Z.
ParseRFC3339(str) ==
    CASE str = "2024-01-01T00:00:00Z" -> <<0>>
      [] str = "2024-01-01T00:01:00Z" -> <<Minute>>
      [] OTHER -> <<>>

\* The differences between now and the start time that are tried: a clock
\* behind the start, the halves of a second, and both sides of each tier.
Durations ==
    {0 - 90 * Second, 0 - 1500, 0 - 500, 0 - 499, 0, 499, 500, 1499, 45 * Second,
     59499, 59500, Minute + 5600, 5 * Minute + 30 * Second,
     Hour - 501, Hour - 500, Hour, 2 * Hour + 30 * Minute + 15 * Second,
     24 * Hour - 500, 24 * Hour, 53 * Hour + 30 * Minute + 29500}

\* The instants handed to Uptime.
Nows == {Minute + d : d \in Durations}

\* Integer division and remainder of Go: the quotient is truncated toward
\* zero and the remainder has the sign of the dividend.
TruncDiv(a, b) == IF a >= 0 THEN a \div b ELSE 0 - ((0 - a) \div b)

TruncRem(a, b) == a - b * TruncDiv(a, b)

\* Variant of LastStartTimeOf: the start time is kept for a running
\* instance only.
LastStartTimeOfRunning(inst) ==
    IF inst.status = "RUNNING" /\ inst.lastStartTimestamp # ""
    THEN ParseRFC3339(inst.lastStartTimestamp)
    ELSE <<>>

\* The start time toModel stores: set when the provider's string is not
\* empty and parses, whatever the status of the instance.
LastStartTimeOf(inst) ==
    IF inst.lastStartTimestamp # "" THEN ParseRFC3339(inst.lastStartTimestamp)
    ELSE <<>>

\* toModel, with the fields the calls below read.
toModelOf(inst) ==
    [ Status |-> StatusFromString(inst.status),
      LastStartTime |-> LastStartTimeOf(inst) ]

ErrVMNotRunning == NewError("VM is not running")

ErrNoStartTime == NewError("VM start time is not available")

\* Variant of Uptime: the start time is looked at before the status.
UptimeStartTimeFirst(v, t) ==
    IF v.LastStartTime = <<>> THEN [d |-> 0, err |-> ErrNoStartTime]
    ELSE IF v.Status # StatusRunning THEN [d |-> 0, err |-> ErrVMNotRunning]
    ELSE [d |-> t - v.LastStartTime[1], err |-> Nil]

\* VM.Uptime(now): the duration and the error it returns.
Uptime(v, t) ==
    IF v.Status # StatusRunning THEN [d |-> 0, err |-> ErrVMNotRunning]
    ELSE IF v.LastStartTime = <<>> THEN [d |-> 0, err |-> ErrNoStartTime]
    ELSE [d |-> t - v.LastStartTime[1], err |-> Nil]

\* Variant of Round: the part below m is dropped.
RoundDown(d, m) == d - TruncRem(d, m)

\* Duration.Round(m): to the nearest multiple of m, halves away from zero.
Round(d, m) ==
    LET r == TruncRem(d, m)
    IN IF d < 0
       THEN IF (0 - r) + (0 - r) < m THEN d - r ELSE d - m - r
       ELSE IF r + r < m THEN d - r ELSE d + m - r

\* formatUptime(d)
formatUptime(d0) ==
    LET d == Round(d0, Second)
        days == TruncDiv(TruncDiv(d, Hour), 24)
        hours == TruncRem(TruncDiv(d, Hour), 24)
        minutes == TruncRem(TruncDiv(d, Minute), 60)
        seconds == TruncRem(TruncDiv(d, Second), 60)
    IN IF days > 0
       THEN ToString(days) \o "d" \o ToString(hours) \o "h"
                \o ToString(minutes) \o "m"
       ELSE IF hours > 0
       THEN ToString(hours) \o "h" \o ToString(minutes) \o "m"
       ELSE IF minutes > 0
       THEN ToString(minutes) \o "m" \o ToString(seconds) \o "s"
       ELSE ToString(seconds) \o "s"

\* calculateUptimeString(vm, now)
calculateUptimeString(v, t) ==
    LET u == Uptime(v, t)
    IN IF u.err # Nil THEN "N/A" ELSE formatUptime(u.d)

\* The repository has fetched an instance and is about to convert it.
DomainInit ==
    /\ CommandIdle
    /\ ProviderIdle
    /\ BatchIdle
    /\ ReporterIdle
    /\ WaitIdle
    /\ FindAllIdle
    /\ UpdateIdle
    /\ instance \in [status : InstanceStatuses,
                     lastStartTimestamp : StartTimestamps]
    /\ nowTime \in Nows
    /\ mPc = "fetched"
    /\ modelVM = <<>>
    /\ canStartResult = <<>>
    /\ canStopResult = <<>>
    /\ uptimeResult = <<>>
    /\ uptimeString = <<>>

\* toModel returns the VM.
ToModel ==
    /\ mPc = "fetched"
    /\ modelVM' = <<toModelOf(instance)>>
    /\ mPc' = "converted"
    /\ UNCHANGED <<besidesDomain, instance, nowTime, canStartResult,
                   canStopResult, uptimeResult, uptimeString>>

\* toModel returns nil and an error: the project or the zone could not be
\* extracted, or the schedule policy could not be fetched.
ToModelFails ==
    /\ mPc = "fetched"
    /\ mPc' = "failed"
    /\ UNCHANGED <<besidesDomain, instance, nowTime, modelVM, canStartResult,
                   canStopResult, uptimeResult, uptimeString>>

CallCanStart ==
    /\ mPc = "converted"
    /\ canStartResult = <<>>
    /\ canStartResult' = <<CanStart(modelVM[1])>>
    /\ UNCHANGED <<besidesDomain, instance, nowTime, mPc, modelVM,
                   canStopResult, uptimeResult, uptimeString>>

CallCanStop ==
    /\ mPc = "converted"
    /\ canStopResult = <<>>
    /\ canStopResult' = <<CanStop(modelVM[1])>>
    /\ UNCHANGED <<besidesDomain, instance, nowTime, mPc, modelVM,
                   canStartResult, uptimeResult, uptimeString>>

CallUptime ==
    /\ mPc = "converted"
    /\ uptimeResult = <<>>
    /\ uptimeResult' = <<Uptime(modelVM[1], nowTime)>>
    /\ UNCHANGED <<besidesDomain, instance, nowTime, mPc, modelVM,
                   canStartResult, canStopResult, uptimeString>>

CallCalculateUptimeString ==
    /\ mPc = "converted"
    /\ uptimeString = <<>>
    /\ uptimeString' = <<calculateUptimeString(modelVM[1], nowTime)>>
    /\ UNCHANGED <<besidesDomain, instance, nowTime, mPc, modelVM,
                   canStartResult, canStopResult, uptimeResult>>

DomainNext ==
    \/ ToModel
    \/ ToModelFails
    \/ CallCanStart
    \/ CallCanStop
    \/ CallUptime
    \/ CallCalculateUptimeString

DomainSpec == DomainInit /\ [][DomainNext]_vars

(* ------------------------------------------------------------------ *)
(* The configuration and the on and off commands                       *)
(* ------------------------------------------------------------------ *)

\* The most entries a configuration file has.
MaxEntries == 2

\* The most names a command line has.
MaxArgs == 2

\* The names asked for: the configurable ones and one that never is.
ArgNames == VMNames \cup {"vm-9"}

\* An entry of the list "vm" of the file: project and zone may be left out.
YamlVMs == [name : VMNames, project : {"", "proj-x"}, zone : {"", "zone-x"}]

\* The file at CnfPath: missing, not YAML, or a yamlConfig.
ConfigFiles ==
    { [kind |-> k, defaultProject |-> "", defaultZone |-> "", vm |-> <<>>] :
        k \in {"missing", "invalid"} }
    \cup
    { [kind |-> "yaml", defaultProject |-> d[1], defaultZone |-> d[2],
       vm |-> v] :
        d \in {<<"proj-d", "zone-d">>, <<"", "">>},
        v \in UNION {[1..n -> YamlVMs] : n \in 0..MaxEntries} }

\* Variant of ZoneOf: the default zone is taken for every entry.
ZoneOfDefault(y, ymlVm) == y.defaultZone

\* The zone ParseConfig gives the VM of an entry.
ZoneOf(y, ymlVm) == IF ymlVm.zone = "" THEN y.defaultZone ELSE ymlVm.zone

\* The project ParseConfig gives the VM of an entry.
ProjectOf(y, ymlVm) ==
    IF ymlVm.project = "" THEN y.defaultProject ELSE ymlVm.project

\* ParseConfig(confPath), y being the file at confPath: the Config (<<>>
\* for nil) and the error.
ParseConfig(y) ==
    CASE y.kind = "missing" ->
           [cnf |-> <<>>, err |-> NewError("no such file or directory")]
      [] y.kind = "invalid" ->
           [cnf |-> <<>>, err |-> NewError("yaml: unmarshal errors")]
      [] OTHER ->
           [cnf |-> << [ DefaultProject |-> y.defaultProject,
                         DefaultZone |-> y.defaultZone,
                         VMs |-> [ i \in 1..Len(y.vm) |->
                                     [ Name |-> y.vm[i].name,
                                       Project |-> ProjectOf(y, y.vm[i]),
                                       Zone |-> ZoneOf(y, y.vm[i]) ] ] ] >>,
            err |-> Nil]

\* Config.GetVMByName(name): the first VM of that name, <<>> for nil.
GetVMByName(c, name) ==
    LET hits == {i \in 1..Len(c.VMs) : c.VMs[i].Name = name}
    IN IF hits = {} THEN <<>>
       ELSE <<c.VMs[CHOOSE i \in hits : \A j \in hits : i <= j]>>

\* The provider calls the use case makes for one VM, in order.
UnitCallsOf(cmd) ==
    IF cmd = "on" THEN <<"FindByName", "Start">> ELSE <<"FindByName", "Stop">>

\* The command was started with at least one name.
CommandInit ==
    /\ DomainIdle
    /\ ProviderIdle
    /\ BatchIdle
    /\ ReporterIdle
    /\ WaitIdle
    /\ FindAllIdle
    /\ UpdateIdle
    /\ cmdName \in {"on", "off"}
    /\ cmdArgs \in UNION {[1..n -> ArgNames] : n \in 1..MaxArgs}
    /\ cnfFile \in ConfigFiles
    /\ cnf = <<>>
    /\ cmdPc = "run"
    /\ cmdIdx = 0
    /\ cmdVMs = <<>>
    /\ unitCalls = <<>>
    /\ cmdOut = ""

\* config.ParseConfig returned: on an error the command prints it and
\* exits.
CmdParseConfig ==
    /\ cmdPc = "run"
    /\ LET r == ParseConfig(cnfFile)
       IN IF r.err # Nil
          THEN /\ cmdPc' = "exit1"
               /\ cmdOut' = "Failed to parse config"
               /\ UNCHANGED <<cnf, cmdIdx>>
          ELSE /\ cnf' = r.cnf
               /\ cmdPc' = "resolve"
               /\ cmdIdx' = 1
               /\ UNCHANGED cmdOut
    /\ UNCHANGED <<besidesCommand, cmdName, cmdArgs, cnfFile, cmdVMs,
                   unitCalls>>

\* Variant of ResolveMiss: a name that is not configured is skipped.
ResolveMissSkipped ==
    /\ cmdIdx' = cmdIdx + 1
    /\ UNCHANGED <<cmdPc, cmdOut>>

\* A name that is not configured: the command prints it and exits.
ResolveMiss ==
    /\ cmdPc' = "exit1"
    /\ cmdOut' = "VM not found"
    /\ UNCHANGED cmdIdx

\* One round of the loop over the names.
CmdResolve ==
    /\ cmdPc = "resolve"
    /\ cmdIdx <= Len(cmdArgs)
    /\ LET hit == GetVMByName(cnf[1], cmdArgs[cmdIdx])
       IN IF hit = <<>>
          THEN /\ ResolveMiss
               /\ UNCHANGED cmdVMs
          ELSE /\ cmdVMs' = Append(cmdVMs, hit[1])
               /\ cmdIdx' = cmdIdx + 1
               /\ UNCHANGED <<cmdPc, cmdOut>>
    /\ UNCHANGED <<besidesCommand, cmdName, cmdArgs, cnfFile, cnf, unitCalls>>

\* The loop is over: the repository and the use case are built and
\* Execute is called with vms.
CmdExecute ==
    /\ cmdPc = "resolve"
    /\ cmdIdx > Len(cmdArgs)
    /\ cmdPc' = "execute"
    /\ unitCalls' = [i \in 1..Len(cmdVMs) |-> <<>>]
    /\ UNCHANGED <<besidesCommand, cmdName, cmdArgs, cnfFile, cnf, cmdIdx,
                   cmdVMs, cmdOut>>

\* The use case makes the next provider call for the i-th VM.
CmdProviderCall(i) ==
    /\ cmdPc = "execute"
    /\ Len(unitCalls[i]) < Len(UnitCallsOf(cmdName))
    /\ unitCalls' =
         [unitCalls EXCEPT ![i] =
            Append(@, UnitCallsOf(cmdName)[Len(unitCalls[i]) + 1])]
    /\ UNCHANGED <<besidesCommand, cmdName, cmdArgs, cnfFile, cnf, cmdPc,
                   cmdIdx, cmdVMs, cmdOut>>

\* Execute returned: every VM was fetched, and those that passed were
\* started or stopped. With an error the command prints it and exits.
CmdExecuteReturns ==
    /\ cmdPc = "execute"
    /\ \A i \in 1..Len(cmdVMs) : unitCalls[i] # <<>>
    /\ \/ /\ cmdPc' = "exit1"
          /\ cmdOut' = "Failed to turn " \o cmdName
       \/ /\ \A i \in 1..Len(cmdVMs) : unitCalls[i] = UnitCallsOf(cmdName)
          /\ cmdPc' = "done"
          /\ cmdOut' = "Turned on the instances"
    /\ UNCHANGED <<besidesCommand, cmdName, cmdArgs, cnfFile, cnf, cmdIdx,
                   cmdVMs, unitCalls>>

CommandNext ==
    \/ CmdParseConfig
    \/ CmdResolve
    \/ CmdExecute
    \/ \E i \in 1..Len(cmdVMs) : CmdProviderCall(i)
    \/ CmdExecuteReturns

CommandSpec == CommandInit /\ [][CommandNext]_vars

(* ------------------------------------------------------------------ *)
(* Vocabulary of the properties                                        *)
(* ------------------------------------------------------------------ *)

\* e ends in the text of context.Canceled: the unit failed by observing
\* the cancellation, not by a failure of its own.
IsCancellation(e) == e # Nil /\ e.text[Len(e.text)] = "context canceled"

\* The words of the two use cases.
PastWord == IF action = "Start" THEN "started" ELSE "stopped"
VerbWord == IF action = "Start" THEN "start" ELSE "stop"

\* The status does not admit the action of the batch.
Refused(status) ==
    IF action = "Start"
    THEN status \notin {StatusStopped, StatusTerminated}
    ELSE status # StatusRunning

\* The text of the precondition error for a VM name and a status.
CannotBeText(name, status) ==
    <<"VM ", name, ": cannot be " \o PastWord \o " (current status: ",
      StatusString(status), ")">>

\* Unit i failed at the precondition gate.
FailedAtGate(i) ==
    /\ pc[i] = "failed"
    /\ Len(uerr[i].text) = 5
    /\ uerr[i].text[3] = ": cannot be " \o PastWord \o " (current status: "

Distinct == \A i, j \in Units : i # j => vms[i] # vms[j]

\* errors.Is: target is e or is on the chain of causes of e.
RECURSIVE Is(_, _)
Is(e, target) ==
    \/ e = target
    \/ e.cause # <<>> /\ Is(e.cause[1], target)

(* ------------------------------------------------------------------ *)
(* C1                                                                  *)
(* ------------------------------------------------------------------ *)

\* C1: a unit whose freshly fetched VM has a status that does not admit the
\* action never invokes Start/Stop (no call, no operation at the provider),
\* and the error its closure returns is
\* "VM {name}: cannot be started|stopped (current status: {status})".
C1_GateBlocksAct ==
    \A i \in Units :
        (found[i] # <<>> /\ Refused(found[i][1].Status)) =>
            /\ actCalls[i] = 0
            /\ actArg[i] = <<>>
            /\ op[i] = "none"
            /\ pc[i] \in {"check", "failed"}
            /\ pc[i] = "failed" =>
                 uerr[i] = [text |-> CannotBeText(vms[i], found[i][1].Status),
                            cause |-> <<>>]

\* A Start batch in which a unit fetched a RUNNING VM and was turned away,
\* while a sibling was let through.
C1_Witness ==
    /\ action = "Start"
    /\ \E i, j \in Units :
         /\ found[i] # <<>> /\ found[i][1].Status = StatusRunning
         /\ pc[i] = "failed"
         /\ actCalls[j] = 1

(* ------------------------------------------------------------------ *)
(* C2                                                                  *)
(* ------------------------------------------------------------------ *)

\* C2: what the batch call returns is the error of the unit that failed
\* first, whole and alone; unless the caller interrupted the batch, that
\* error is never one a sibling produced by observing the cancellation, so
\* when A's fetch fails and B only fails because it was cancelled, the
\* returned error is A's.
C2_FirstErrorWins ==
    returned =>
        /\ result = (IF errLog = <<>> THEN Nil ELSE uerr[errLog[1]])
        /\ (~interrupted /\ errLog # <<>>) => ~IsCancellation(result)
        /\ \A a, b \in Units :
             ( /\ ~interrupted
               /\ pc[a] = "failed" /\ ~IsCancellation(uerr[a])
               /\ pc[b] = "failed" /\ IsCancellation(uerr[b]) ) =>
                 /\ result # uerr[b]
                 /\ (\A c \in Units \ {a} : pc[c] = "failed" => IsCancellation(uerr[c]))
                      => result = uerr[a]

\* A's fetch failed, B had fetched a startable VM and was blocked in the
\* wait of its operation; B unwound with a cancellation error after A's
\* error, and the call returned A's.
C2_Witness ==
    /\ returned
    /\ ~interrupted
    /\ \E a, b \in Units :
         /\ errLog = <<a, b>>
         /\ uerr[a].text[3] = ": failed to find: "
         /\ ~IsCancellation(uerr[a])
         /\ found[b] # <<>> /\ actCalls[b] = 1
         /\ IsCancellation(uerr[b])
         /\ result = uerr[a]

(* ------------------------------------------------------------------ *)
(* C3                                                                  *)
(* ------------------------------------------------------------------ *)

\* Unit i went all the way: it fetched a VM, the status admitted the action,
\* Start/Stop was invoked once, the operation completed, no error came back.
Succeeded(i) ==
    /\ pc[i] = "done"
    /\ findCalls[i] = 1
    /\ found[i] # <<>>
    /\ ~Refused(found[i][1].Status)
    /\ actCalls[i] = 1
    /\ op[i] = "done"
    /\ uerr[i] = Nil

\* C3: the batch call returns nil exactly when every unit fetched its VM,
\* passed the gate and completed Start/Stop without error; the failure of a
\* unit always reaches the caller.
C3_NilIffAllSucceeded ==
    returned => (result = Nil <=> \A i \in Units : Succeeded(i))

\* A batch of two that returned nil after both operations completed.
C3_Witness ==
    /\ returned
    /\ result = Nil
    /\ Len(vms) = 2
    /\ \A i \in Units : Succeeded(i)

(* ------------------------------------------------------------------ *)
(* C4                                                                  *)
(* ------------------------------------------------------------------ *)

\* The VM of unit i has a status that does not admit the action (in a list
\* of distinct names only unit i's own completed operation changes it).
GateFails(i) ==
    /\ op[i] # "done"
    /\ Refused(StatusFromString(instStatus[vms[i]]))

\* N distinct VMs of which exactly one fails its precondition, a provider
\* that fails no call of itself, and no interrupt by the caller.
OneGateFailure ==
    /\ Distinct
    /\ ~interrupted
    /\ Cardinality({i \in Units : GateFails(i)}) = 1
    /\ \A i \in Units :
         pc[i] = "failed" => (FailedAtGate(i) \/ IsCancellation(uerr[i]))

\* C4 as stated: the error names the failing VM and says "cannot be
\* started|stopped", the other N-1 units succeed, Start/Stop was invoked
\* exactly N-1 times and FindByName exactly N times.
C4_Original ==
    (returned /\ OneGateFailure) =>
        \E k \in Units :
            /\ GateFails(k)
            /\ result = [text |-> CannotBeText(vms[k], found[k][1].Status),
                         cause |-> <<>>]
            /\ \A i \in Units \ {k} : Succeeded(i)
            /\ \A i \in Units : findCalls[i] = 1
            /\ \A i \in Units : actCalls[i] = (IF i = k THEN 0 ELSE 1)

\* C4 as amended: the error names the failing VM and says "cannot be
\* started|stopped"; FindByName was invoked exactly N times; Start/Stop was
\* never invoked for the failing VM and at most once for each other VM (at
\* most N-1 times in all); each other unit either succeeded or failed only
\* by observing the cancellation.
C4_OneGateFailure ==
    (returned /\ OneGateFailure) =>
        \E k \in Units :
            /\ GateFails(k)
            /\ result = [text |-> CannotBeText(vms[k], found[k][1].Status),
                         cause |-> <<>>]
            /\ \A i \in Units : findCalls[i] = 1
            /\ actCalls[k] = 0
            /\ \A i \in Units \ {k} :
                 /\ actCalls[i] <= 1
                 /\ \/ Succeeded(i)
                    \/ pc[i] = "failed" /\ IsCancellation(uerr[i])

\* Two VMs, one turned away at the gate, the other started or stopped to
\* completion: Start/Stop invoked N-1 times, FindByName N times.
C4_Witness ==
    /\ returned
    /\ OneGateFailure
    /\ Len(vms) = 2
    /\ \E k, i \in Units :
         /\ FailedAtGate(k)
         /\ result = uerr[k]
         /\ i # k
         /\ Succeeded(i)

(* ------------------------------------------------------------------ *)
(* C5                                                                  *)
(* ------------------------------------------------------------------ *)

\* C5: once a unit of the batch has failed, the shared context is done, and
\* every sibling still in flight (blocked in FindByName, in the request, or
\* in the wait of its operation) unwinds on it, so that the batch call
\* eventually returns, whether or not the provider ever answers.
C5_FailureLeadsToReturn == (\E i \in Units : pc[i] = "failed") ~> returned

\* The call returned although the operation of a sibling never completed:
\* the sibling, blocked in the wait, unwound with the cancellation error
\* after another unit's failure.
C5_Witness ==
    /\ returned
    /\ ~interrupted
    /\ \E i, j \in Units :
         /\ errLog = <<i, j>>
         /\ ~IsCancellation(uerr[i])
         /\ op[j] = "pending"
         /\ pc[j] = "failed"
         /\ uerr[j] = FailedError(found[j][1], waitOperatorError(Canceled))

(* ------------------------------------------------------------------ *)
(* C6                                                                  *)
(* ------------------------------------------------------------------ *)

\* The status the action of the batch leaves an instance in.
EffectWord == IF action = "Start" THEN "RUNNING" ELSE "TERMINATED"

\* C6: the batch is not transactional. A VM whose operation completed is
\* and stays started (stopped), whatever happens to the sibling units and
\* whatever the call returns; its unit made its one call of Start/Stop and
\* nothing is called to undo it.
C6_EffectsKept ==
    \A i \in Units :
        op[i] = "done" =>
            /\ instStatus[actArg[i][1].Name] = EffectWord
            /\ actCalls[i] = 1

\* The call returned a sibling's own failure, and the VM of a unit that had
\* completed is still started (stopped).
C6_Witness ==
    /\ returned
    /\ result # Nil
    /\ \E i, j \in Units :
         /\ pc[i] = "done"
         /\ instStatus[vms[i]] = EffectWord
         /\ pc[j] = "failed"
         /\ result = uerr[j]
         /\ ~IsCancellation(uerr[j])

(* ------------------------------------------------------------------ *)
(* C7                                                                  *)
(* ------------------------------------------------------------------ *)

\* The order of the steps inside one unit.
StepOrder == <<"find", "found", "check", "act">>

\* C7: the steps of one unit are taken in the order FindByName called,
\* FindByName returned, precondition evaluated, Start/Stop invoked, none of
\* them twice and none before its predecessor; Start/Stop is handed the VM
\* value this unit's own FindByName returned. (Across units no order holds:
\* see the witness.)
C7_SequentialWithinUnit ==
    \A i \in Units :
        /\ Len(trace[i]) <= Len(StepOrder)
        /\ trace[i] = SubSeq(StepOrder, 1, Len(trace[i]))
        /\ actCalls[i] = 1 =>
             /\ trace[i] = StepOrder
             /\ found[i] # <<>>
             /\ actArg[i] = found[i]
        /\ actCalls[i] = 0 => actArg[i] = <<>>

\* The second unit of the list has already invoked Start/Stop on the VM it
\* fetched while the first has not yet called FindByName.
C7_Witness ==
    /\ Len(vms) = 2
    /\ trace[1] = <<>>
    /\ trace[2] = StepOrder
    /\ actArg[2] = found[2]
    /\ actArg[2][1].Name = vms[2]

(* ------------------------------------------------------------------ *)
(* C8                                                                  *)
(* ------------------------------------------------------------------ *)

\* The request of unit i reached the provider while the instance still had
\* the status the unit had fetched and checked.
ActedOnFetchedStatus(i) ==
    actOn[i] # "-" => StatusFromString(actOn[i]) = found[i][1].Status

\* C8 as stated: for every list, also one that names a VM more than once, no
\* unit starts or stops a VM on a status a sibling has changed since the
\* unit fetched it.
C8_Original == \A i \in Units : ActedOnFetchedStatus(i)

\* C8 as amended: for every list of distinct VM references, no unit starts
\* or stops a VM on a status a sibling has changed since the unit fetched it.
C8_NoStaleActWhenDistinct == Distinct => \A i \in Units : ActedOnFetchedStatus(i)

\* Two distinct VMs: the operation of one unit has completed and changed its
\* instance, and the request of the other then reached the provider with
\* its instance as fetched.
C8_Witness ==
    /\ Distinct
    /\ \E i, j \in Units :
         /\ i # j
         /\ op[i] = "done"
         /\ instStatus[vms[i]] # StatusString(found[i][1].Status)
         /\ actOn[j] # "-"
         /\ StatusFromString(actOn[j]) = found[j][1].Status

(* ------------------------------------------------------------------ *)
(* C9                                                                  *)
(* ------------------------------------------------------------------ *)

\* FindByName of unit i has returned neither a VM nor an error.
FoundNothing(i) ==
    /\ trace[i] # <<>>
    /\ trace[i][Len(trace[i])] = "found"
    /\ found[i] = <<>>

\* C9: a unit whose FindByName returned no VM and no error produces the
\* error "VM {name}: not found"; it neither evaluates the precondition nor
\* invokes Start/Stop.
C9_NilIsNotFound ==
    \A i \in Units :
        (found[i] = <<>> /\ Len(trace[i]) >= 2) =>
            /\ FoundNothing(i)
            /\ actCalls[i] = 0
            /\ op[i] = "none"
            /\ pc[i] \in {"check", "failed"}
            /\ pc[i] = "failed" =>
                 uerr[i] = [text |-> <<"VM ", vms[i], ": not found">>, cause |-> <<>>]

\* A unit ended with "not found" after FindByName returned (nil, nil), and
\* the call returned that error.
C9_Witness ==
    /\ action = "Start"
    /\ returned
    /\ \E i \in Units :
         /\ FoundNothing(i)
         /\ pc[i] = "failed"
         /\ findCalls[i] = 1
         /\ result = uerr[i]
         /\ result.text[3] = ": not found"

(* ------------------------------------------------------------------ *)
(* C10                                                                 *)
(* ------------------------------------------------------------------ *)

\* The errors the repository can hand to the use case.
FindCauses ==
    { Errorf_w(<<"failed to get instance: ">>, ApiError),
      Errorf_w(<<"failed to get instance: ">>, Canceled) }

ActCauses ==
    { Errorf_w(<<"failed to " \o VerbWord \o " instance: ">>, ApiError),
      Errorf_w(<<"failed to " \o VerbWord \o " instance: ">>, Canceled),
      [text |-> <<"failed to wait for operation: ", "GCP API error">>, cause |-> <<>>],
      [text |-> <<"failed to wait for operation: ", "context canceled">>, cause |-> <<>>] }

\* e is "VM {name}: {what}{text of c}" and has c as its cause.
Wraps(e, name, what, c) ==
    /\ e.text = <<"VM ", name, what>> \o c.text
    /\ e.cause = <<c>>

\* C10: an error the batch call returns is the error of a unit that failed,
\* begins "VM {name}: " with the name of that unit's VM, and, when the fetch
\* or the start/stop failed, is "VM {name}: failed to find: {cause}" or
\* "VM {name}: failed to start|stop: {cause}" with the repository's error
\* kept as its cause.
C10_ErrorNamesVMAndWraps ==
    (returned /\ result # Nil) =>
        \E i \in Units :
            /\ pc[i] = "failed"
            /\ result = uerr[i]
            /\ result.text[1] = "VM "
            /\ result.text[2] = vms[i]
            /\ \/ /\ found[i] = <<>>
                  /\ Len(trace[i]) = 1
                  /\ \E c \in FindCauses : Wraps(result, vms[i], ": failed to find: ", c)
               \/ /\ actCalls[i] = 1
                  /\ \E c \in ActCauses :
                       Wraps(result, vms[i], ": failed to " \o VerbWord \o ": ", c)
               \/ /\ actCalls[i] = 0
                  /\ Len(trace[i]) >= 2
                  /\ result.cause = <<>>
                  /\ result.text[3] \in
                       {": not found", ": cannot be " \o PastWord \o " (current status: "}

\* The call returned "VM {name}: failed to start|stop: ..." wrapping the
\* provider's refusal of the request.
C10_Witness ==
    /\ action = "Start"
    /\ returned
    /\ \E i \in Units :
         /\ result = uerr[i]
         /\ actCalls[i] = 1
         /\ Wraps(result, vms[i], ": failed to " \o VerbWord \o ": ",
                  Errorf_w(<<"failed to " \o VerbWord \o " instance: ">>, ApiError))

(* ------------------------------------------------------------------ *)
(* C11                                                                 *)
(* ------------------------------------------------------------------ *)

\* The calls unit i has made so far.
Calls(i) == <<findCalls[i], actCalls[i], issued[i]>>

\* A unit that is over stays over and calls nothing more.
OverStaysOver ==
    \A i \in Units :
        pc[i] \in {"done", "failed"} =>
            /\ pc'[i] = pc[i]
            /\ uerr'[i] = uerr[i]
            /\ Calls(i)' = Calls(i)

\* An operation the provider has settled is not issued anew, and while the
\* unit waits for its operation no request goes out.
NoReissue ==
    \A i \in Units :
        /\ op[i] \in {"done", "failed"} => op'[i] = op[i]
        /\ pc[i] = "waiting" => Calls(i)' = Calls(i)

\* C11: nothing is retried. In one batch call each unit invokes FindByName
\* at most once and Start/Stop at most once and creates at most one
\* operation; a provider call that failed (the fetch, the request, or the
\* operation) leaves the unit failed with that error, and a unit that is
\* over makes no further call; the wait for an operation never issues the
\* operation again.
C11_NothingRetried ==
    /\ [](\A i \in Units :
            /\ findCalls[i] <= 1
            /\ actCalls[i] <= 1
            /\ issued[i] <= actCalls[i]
            /\ uerr[i] # Nil => pc[i] = "failed"
            /\ (op[i] = "failed" /\ pc[i] # "waiting") => pc[i] = "failed")
    /\ [][OverStaysOver /\ NoReissue]_vars

\* The operation of a unit failed at the provider; the unit ended with that
\* failure after one call of FindByName, one of Start/Stop and one operation.
C11_Witness ==
    \E i \in Units :
        /\ op[i] = "failed"
        /\ pc[i] = "failed"
        /\ uerr[i] = FailedError(found[i][1], waitOperatorError(ApiError))
        /\ Calls(i) = <<1, 1, 1>>

(* ------------------------------------------------------------------ *)
(* C12                                                                 *)
(* ------------------------------------------------------------------ *)

\* C12: the ticking closure never returns an error, however it ends (on
\* doneCh or on the done context), and what ExecuteWithProgress returns is
\* exactly what fn returned: nil when fn returned nil, fn's error otherwise.
C12_ReturnsWorkError ==
    /\ tickerErr = Nil
    /\ pReturned => pResult = workErr

\* The context was cancelled, the ticking closure ended on ctx.Done(), fn
\* went on to fail by itself, and the reporter returned fn's failure.
C12_Witness ==
    /\ pReturned
    /\ pCanceled
    /\ ticker = "ctx.Done"
    /\ workErr = FnFailure
    /\ pResult = FnFailure

(* ------------------------------------------------------------------ *)
(* C13                                                                 *)
(* ------------------------------------------------------------------ *)

\* C13: when ExecuteWithProgress has returned, the work closure and the
\* ticking closure have both returned, and from then on p.Progress() is
\* never called.
C13_ReturnsAfterBoth ==
    /\ [](pReturned => (work = "done" /\ ticker \in {"ctx.Done", "doneCh"}))
    /\ [][pReturned => ticks' = ticks]_vars

\* The reporter returned after ticks had been shown and the ticking closure
\* had ended on doneCh.
C13_Witness ==
    /\ pReturned
    /\ ticks >= 1
    /\ ticker = "doneCh"
    /\ work = "done"

(* ------------------------------------------------------------------ *)
(* C14                                                                 *)
(* ------------------------------------------------------------------ *)

\* C14 as stated: for any fn, once the context is cancelled the reporter
\* returns.
C14_Original == pCanceled ~> pReturned

\* C14 as amended: for an fn that returns when its context is done, once
\* the context is cancelled the reporter returns, and it does so before the
\* clock moves on. (The reporter waits for fn: with an fn that ignores its
\* context it returns when fn returns, if ever.)
C14_CancelReturnsWhenFnHeedsCtx ==
    /\ (pCanceled /\ fn.heedsCtx) ~> pReturned
    /\ [][(pCanceled /\ fn.heedsCtx) => now' = now]_vars

\* The context was cancelled while fn was blocked; fn gave up, and the
\* reporter returned before fn would have ended by itself.
C14_Witness ==
    /\ pReturned
    /\ pCanceled
    /\ workErr = FnInterrupted
    /\ pResult = FnInterrupted
    /\ (~fn.ends \/ now < fn.duration)

(* ------------------------------------------------------------------ *)
(* C15                                                                 *)
(* ------------------------------------------------------------------ *)

\* C15: with the tick interval of one second, a call whose fn ends in less
\* than one interval has called p.Progress() zero times when it returns; a
\* call whose fn takes more than 2.5 intervals (and whose context is not
\* cancelled meanwhile) has called it at least twice.
C15_TickCounts ==
    pReturned =>
        /\ (fn.ends /\ fn.duration < TickInterval) => ticks = 0
        /\ (~pCanceled /\ fn.ends /\ 2 * fn.duration > 5 * TickInterval) => ticks >= 2

\* fn took three intervals; the reporter returned after at least two ticks.
C15_Witness ==
    /\ pReturned
    /\ ~pCanceled
    /\ 2 * fn.duration > 5 * TickInterval
    /\ now = fn.duration
    /\ ticks >= 2

(* ------------------------------------------------------------------ *)
(* C16                                                                 *)
(* ------------------------------------------------------------------ *)

\* C16: doneCh is closed at most once and only by the work closure; once
\* the work closure has returned, with or without an error, doneCh has been
\* closed exactly once.
C16_ClosedOnceByWork ==
    /\ Len(doneCh) <= 1
    /\ \A k \in 1..Len(doneCh) : doneCh[k] = "work"
    /\ work = "done" => doneCh = <<"work">>
    /\ pReturned => doneCh = <<"work">>

\* fn failed, and doneCh was closed once, by the work closure.
C16_Witness ==
    /\ pReturned
    /\ workErr = FnFailure
    /\ doneCh = <<"work">>

(* ------------------------------------------------------------------ *)
(* C17                                                                 *)
(* ------------------------------------------------------------------ *)

\* C17: when the provider reported that the operation failed and the
\* caller's context was not cancelled, waitOperator returns that failure
\* ("failed to wait for operation: " and the failure's text), never the
\* cancellation error its reporting closure returns once the failure has
\* cancelled ctx.
C17_FailureNotCancellation ==
    (wReturned /\ operation = "failed" /\ ~wCanceled) =>
        /\ waiterErr = OpFailure
        /\ wResult = [text |-> <<"failed to wait for operation: ">> \o OpFailure.text,
                      cause |-> <<>>]
        /\ ~IsCancellation(wResult)

\* The operation failed with a progress callback set: the reporting closure
\* ended on ctx.Done() with the cancellation error, and waitOperator
\* returned the provider's failure.
C17_Witness ==
    /\ wReturned
    /\ progressCallback
    /\ ~wCanceled
    /\ operation = "failed"
    /\ reporterErr = Canceled
    /\ callbacks > 0
    /\ ~IsCancellation(wResult)

(* ------------------------------------------------------------------ *)
(* C18                                                                 *)
(* ------------------------------------------------------------------ *)

\* C18: an error a mutation (Start, Stop, UpdateMachineType,
\* SetSchedulePolicy, UnsetSchedulePolicy) returns after its wait failed
\* has the cause of the failure on its chain, and when the wait ended on a
\* cancelled context the error is context.Canceled to errors.Is, so that a
\* caller can tell "was interrupted" from "something failed".
C18_Original ==
    (wReturned /\ mResult # Nil) =>
        /\ Is(mResult, wgErr)
        /\ wgErr = Canceled => Is(mResult, Canceled)

(* ------------------------------------------------------------------ *)
(* C19                                                                 *)
(* ------------------------------------------------------------------ *)

\* How often the VM of entry i is in the list l.
Occurrences(l, i) == Cardinality({k \in 1..Len(l) : l[k].entry = i})

\* C19: the failed fetch of one VM never fails FindAll. No closure hands an
\* error to the errgroup, so the context is done only when the caller
\* cancels it and no fetch is cancelled by a sibling's failure; FindAll
\* returns no error and a list that holds, once each, exactly the VMs of the
\* entries whose fetch succeeded, as their own fetch returned them.
C19_FailedFetchOmitted ==
    /\ fgErr = Nil
    /\ \A i \in Entries : IsCancellation(fetchErr[i]) => fCanceled
    /\ fReturned =>
         /\ fErr = Nil
         /\ \A i \in Entries :
              Occurrences(fVMs, i) = (IF fetch[i] = "sent" THEN 1 ELSE 0)
         /\ \A k \in 1..Len(fVMs) : fVMs[k].vm = toModel(cfg[fVMs[k].entry])

\* Two configured VMs: the fetch of one failed at the provider, the other
\* was fetched after that, and FindAll returned the other alone, without
\* error and without a cancellation.
C19_Witness ==
    /\ fReturned
    /\ ~fCanceled
    /\ fErr = Nil
    /\ Len(cfg) = 2
    /\ \E i, j \in Entries :
         /\ fetch[i] = "failed"
         /\ fetchErr[i] = Errorf_w(<<"failed to get instance: ">>, ApiError)
         /\ fetch[j] = "sent"
         /\ fVMs = <<[entry |-> j, vm |-> toModel(cfg[j])]>>

(* ------------------------------------------------------------------ *)
(* C20                                                                 *)
(* ------------------------------------------------------------------ *)

\* The fetched VM is in a stopped state.
IsStopped(vm) == vm.Status \in {StatusStopped, StatusTerminated}

\* C20: Execute invokes UpdateMachineType only for a fetched VM that is in
\* a stopped state; for a fetched VM in any other state it makes no call of
\* UpdateMachineType, leaves the machine type alone, and returns an error.
C20_Original ==
    /\ updateCalls > 0 => (ucFound # <<>> /\ IsStopped(ucFound[1]))
    /\ (ucFound # <<>> /\ ~IsStopped(ucFound[1])) =>
         /\ updateCalls = 0
         /\ ucPc = "returned" => ucErr # Nil

(* ------------------------------------------------------------------ *)
(* C21                                                                 *)
(* ------------------------------------------------------------------ *)

\* C21: for every status of the enum, CanStart returns true exactly for
\* STOPPED and TERMINATED, and CanStop returns true exactly for RUNNING.
C21_CanStartCanStop ==
    /\ canStartResult # <<>> =>
         (canStartResult[1] <=>
            StatusString(modelVM[1].Status) \in {"STOPPED", "TERMINATED"})
    /\ canStopResult # <<>> =>
         (canStopResult[1] <=> StatusString(modelVM[1].Status) = "RUNNING")

\* Both were asked of a VM of the status that is none of the named ones,
\* and both refused.
C21_Witness ==
    /\ modelVM # <<>>
    /\ modelVM[1].Status = StatusUnknown
    /\ canStartResult = <<FALSE>>
    /\ canStopResult = <<FALSE>>

(* ------------------------------------------------------------------ *)
(* C22                                                                 *)
(* ------------------------------------------------------------------ *)

\* C22: Uptime(now) fails with ErrVMNotRunning when the status is not
\* RUNNING, with or without a start time; fails with ErrNoStartTime when the
\* status is RUNNING and there is no start time; and otherwise returns
\* exactly now minus the start time.
C22_Uptime ==
    uptimeResult # <<>> =>
        LET v == modelVM[1]
            u == uptimeResult[1]
        IN /\ v.Status # StatusRunning => u.err = ErrVMNotRunning
           /\ (v.Status = StatusRunning /\ v.LastStartTime = <<>>) =>
                u.err = ErrNoStartTime
           /\ (v.Status = StatusRunning /\ v.LastStartTime # <<>>) =>
                /\ u.err = Nil
                /\ u.d = nowTime - v.LastStartTime[1]

\* Uptime refused a VM that is not running although it has a start time.
C22_Witness ==
    /\ uptimeResult # <<>>
    /\ modelVM[1].Status # StatusRunning
    /\ modelVM[1].LastStartTime # <<>>
    /\ uptimeResult[1].err = ErrVMNotRunning

(* ------------------------------------------------------------------ *)
(* C23                                                                 *)
(* ------------------------------------------------------------------ *)

\* The whole seconds nearest to d milliseconds, halves away from zero.
NearestSecond(d) ==
    IF d >= 0 THEN (d + 500) \div 1000 ELSE 0 - ((500 - d) \div 1000)

\* s seconds by tier; below zero no tier is above zero and the seconds
\* are what is left of the minute.
ByTier(s) ==
    IF s < 0 THEN ToString(0 - ((0 - s) % 60)) \o "s"
    ELSE LET dd == s \div 86400
             hh == (s \div 3600) % 24
             mm == (s \div 60) % 60
             ss == s % 60
         IN CASE dd > 0 -> ToString(dd) \o "d" \o ToString(hh) \o "h"
                               \o ToString(mm) \o "m"
              [] dd = 0 /\ hh > 0 -> ToString(hh) \o "h" \o ToString(mm) \o "m"
              [] dd = 0 /\ hh = 0 /\ mm > 0 ->
                     ToString(mm) \o "m" \o ToString(ss) \o "s"
              [] OTHER -> ToString(ss) \o "s"

\* The uptime of the converted VM and what it was rendered as, when it has
\* an uptime.
Rendered(d, str) ==
    /\ uptimeString = <<str>>
    /\ modelVM[1].Status = StatusRunning
    /\ modelVM[1].LastStartTime # <<>>
    /\ nowTime - modelVM[1].LastStartTime[1] = d

C25_Original ==
    (modelVM # <<>> /\ modelVM[1].LastStartTime # <<>>) =>
        /\ modelVM[1].Status = StatusRunning
        /\ instance.lastStartTimestamp # ""

\* C25 (amended): a VM the repository produced has a start time exactly
\* when the provider reported a start timestamp that is RFC3339, whatever
\* its status; and the start time is that instant.
C25_StartTimeWheneverReported ==
    modelVM # <<>> =>
        /\ modelVM[1].LastStartTime # <<>> <=>
             instance.lastStartTimestamp
                 \in {"2024-01-01T00:00:00Z", "2024-01-01T00:01:00Z"}
        /\ instance.lastStartTimestamp = "2024-01-01T00:00:00Z" =>
             modelVM[1].LastStartTime = <<0>>
        /\ instance.lastStartTimestamp = "2024-01-01T00:01:00Z" =>
             modelVM[1].LastStartTime = <<60000>>

\* A terminated instance whose last start the provider still reports was
\* converted, and the VM carries the start time.
C25_Witness ==
    /\ modelVM # <<>>
    /\ instance.status = "TERMINATED"
    /\ instance.lastStartTimestamp = "2024-01-01T00:00:00Z"
    /\ modelVM[1].Status = StatusTerminated
    /\ modelVM[1].LastStartTime = <<0>>

(* ------------------------------------------------------------------ *)
(* C24                                                                 *)
(* ------------------------------------------------------------------ *)

\* C24: ParseConfig yields one VM per entry of the file, in the order of
\* the file; an entry without project or zone gets the default project or
\* the default zone, and an entry with a zone of its own keeps it while it
\* still gets the default project.
C24_OnePerEntryWithDefaults ==
    cnf # <<>> =>
        /\ Len(cnf[1].VMs) = Len(cnfFile.vm)
        /\ \A i \in 1..Len(cnfFile.vm) :
             LET e == cnfFile.vm[i]
                 v == cnf[1].VMs[i]
             IN /\ v.Name = e.name
                /\ e.project = "" => v.Project = cnfFile.defaultProject
                /\ e.project # "" => v.Project = e.project
                /\ e.zone = "" => v.Zone = cnfFile.defaultZone
                /\ e.zone # "" => v.Zone = e.zone

\* A file of two entries was parsed: the first has a zone of its own and
\* no project, the second has neither.
C24_Witness ==
    /\ cnf # <<>>
    /\ cnfFile.defaultProject = "proj-d"
    /\ cnfFile.defaultZone = "zone-d"
    /\ Len(cnfFile.vm) = 2
    /\ cnfFile.vm[1] = [name |-> "vm-2", project |-> "", zone |-> "zone-x"]
    /\ cnfFile.vm[2] = [name |-> "vm-1", project |-> "", zone |-> ""]
    /\ cnf[1].VMs[1] = [Name |-> "vm-2", Project |-> "proj-d", Zone |-> "zone-x"]
    /\ cnf[1].VMs[2] = [Name |-> "vm-1", Project |-> "proj-d", Zone |-> "zone-d"]

(* ------------------------------------------------------------------ *)
(* C30                                                                 *)
(* ------------------------------------------------------------------ *)

\* The names of the entries of the file.
Configured ==
    IF cnfFile.kind = "yaml"
    THEN {cnfFile.vm[i].name : i \in 1..Len(cnfFile.vm)}
    ELSE {}

\* The provider was called for some VM.
ProviderCalled ==
    cmdPc \in {"execute", "exit1", "done"}
        /\ \E i \in DOMAIN unitCalls : unitCalls[i] # <<>>

\* C30: the on and off commands resolve every requested name against the
\* configuration before any provider call: when the provider is called,
\* every name has been resolved; and when some requested name is not
\* configured, the command never calls the provider nor succeeds, and
\* once it has looked at that name it has exited with a failure.
C30_ResolvedBeforeAnyProviderCall ==
    /\ ProviderCalled =>
         /\ Len(cmdVMs) = Len(cmdArgs)
         /\ \A k \in 1..Len(cmdArgs) : cmdVMs[k].Name = cmdArgs[k]
    /\ (\E k \in 1..Len(cmdArgs) : cmdArgs[k] \notin Configured) =>
         /\ ~ProviderCalled
         /\ cmdPc \in {"run", "resolve", "exit1"}
         /\ unitCalls = <<>>
         /\ (cmdPc = "resolve" /\ cmdIdx <= Len(cmdArgs)) =>
              \A k \in 1..(cmdIdx - 1) : cmdArgs[k] \in Configured

\* The second of two names is not configured: the command exited after it
\* had resolved the first, and called nothing.
C30_Witness ==
    /\ Len(cmdArgs) = 2
    /\ cmdArgs[1] \in Configured
    /\ cmdArgs[2] \notin Configured
    /\ cmdPc = "exit1"
    /\ cmdOut = "VM not found"
    /\ Len(cmdVMs) = 1
    /\ unitCalls = <<>>

(* ------------------------------------------------------------------ *)
(* C26                                                                 *)
(* ------------------------------------------------------------------ *)

\* C26 (as stated): when the operation has completed successfully, that
\* is when op.Wait has returned nil, waitOperator returns nil, also when
\* the caller's context is cancelled meanwhile and a progress callback is
\* registered.
C26_Original == (wReturned /\ waiter = "done") => wResult = Nil

(* ------------------------------------------------------------------ *)
(* C27                                                                 *)
(* ------------------------------------------------------------------ *)

\* op.Wait has returned, with nil or with an error.
OpWaitReturned == waiter \in {"done", "failed"}

\* C27: once op.Wait has returned, waitOperator returns, whether the
\* operation succeeded, failed at the provider or the wait was cancelled,
\* and with or without a progress callback: the ticking closure ends
\* although done is closed on success only; and the callback is not invoked
\* after waitOperator has returned.
C27_ReturnsOnceWaitReturned ==
    /\ OpWaitReturned ~> wReturned
    /\ [][wReturned => callbacks' = callbacks]_vars
    /\ [](wReturned => /\ OpWaitReturned
                       /\ reporter \in {"none", "ctx.Done", "done"})

\* The provider reported a failure, nobody cancelled and done was never
\* closed; the ticking closure, which had invoked the callback, ended and
\* waitOperator returned.
C27_Witness ==
    /\ wReturned
    /\ progressCallback
    /\ waiterErr = OpFailure
    /\ ~wCanceled
    /\ ~done
    /\ callbacks > 0
    /\ reporter = "ctx.Done"

(* ------------------------------------------------------------------ *)
(* C28                                                                 *)
(* ------------------------------------------------------------------ *)

\* The FindByName of every configured VM has returned.
AllFetchesReturned == \A i \in Entries : fetch[i] \notin {"spawned", "finding"}

\* C28: once the fetch of every configured VM has returned, FindAll
\* returns: no closure is ever blocked sending its VM, vmChan never holding
\* more than one VM per configured entry; vmChan is closed and drained only
\* after every closure has finished; and the result has no more entries
\* than the configuration.
C28_FindAllTerminates ==
    /\ AllFetchesReturned ~> fReturned
    /\ [](\A i \in Entries : fetch[i] # "blocked")
    /\ [](Len(vmChan) <= Len(cfg))
    /\ [](fReturned => \A i \in Entries : fetch[i] \in {"sent", "failed"})
    /\ [](Len(fVMs) <= Len(cfg))

\* Every configured VM was fetched and sent, the channel was full, and
\* FindAll returned them all.
C28_Witness ==
    /\ fReturned
    /\ Len(cfg) = MaxVMs
    /\ \A i \in Entries : fetch[i] = "sent"
    /\ Len(vmChan) = Len(cfg)
    /\ Len(fVMs) = Len(cfg)

(* ------------------------------------------------------------------ *)
(* C29                                                                 *)
(* ------------------------------------------------------------------ *)

\* C29 (as stated): the list FindAll returns, which ListVMsUseCase.Execute
\* maps item by item, is in the order of the configuration, whatever the
\* order in which the fetches complete.
C29_Original ==
    (fReturned /\ fErr = Nil) =>
        \A k \in 1..(Len(fVMs) - 1) : fVMs[k].entry < fVMs[k + 1].entry

====
